---- MODULE Spec2Model ----
(***************************************************************************)
(* PhantomArbiter core: the pool graph (graph.rs), the bounded-DFS cycle   *)
(* finder (cycle_finder.rs), the multiverse scanner (multiverse.rs) and    *)
(* the slot/signature consensus engine (slot_consensus.rs), the burst      *)
(* collapse buffer (whiff_buffer.rs), the SPFA pathfinder (lib.rs) and the *)
(* channels of the WSS aggregator (wss_aggregator.rs).                     *)
(*                                                                         *)
(* Numbers.  An exchange rate is written in hundredths (90 is 0.90, 102 is *)
(* 1.02); a weight is written in hundredths of a natural-log unit (the     *)
(* weight of rate 1.25 is -22, that is -0.22).  A profit percentage is     *)
(* written in units of 0.0001 percent (2000 is 0.20 percent); a threshold  *)
(* fraction is written in units of 0.00001 (100 is 0.001), so that the     *)
(* code's "fraction * 100.0" is ten times the integer.  A confidence and a *)
(* pressure are written in tenths (3 is 0.3).                              *)
(***************************************************************************)
EXTENDS Integers, Sequences, FiniteSets, TLC

VARIABLES
    edges,          \* HopGraph.edges: source mint -> Vec<PoolEdge>
    pool_index,     \* HopGraph.pool_index: pool address -> (source, idx)
    nodes,          \* HopGraph.nodes
    edge_count,     \* HopGraph.edge_count
    last,           \* the last graph call: its name, arguments and return value,
                    \* the rate it found stored for the pool (update_edge) and
                    \* the number of index entries it moved (prune_stale)
    found,          \* the CycleFinder call made on the graph as it is, with its result
    held_scanner,   \* the caller's MultiverseScanner, if it has built one
    scan,           \* the scan_multiverse call made on the graph as it is, with its result
    dedup,          \* ConsensusEngine.dedup
    slot_tracker,   \* ConsensusEngine.slot_tracker
    accepted_count, \* ConsensusEngine.accepted_count
    duplicate_count,\* ConsensusEngine.duplicate_count
    stale_count,    \* ConsensusEngine.stale_count
    calls,          \* per provider thread: where its should_process call stands
    resetting,      \* the number of counters the reset_stats call has zeroed
    arrivals,       \* per signature: what is_new answered, in order, since the
                    \* signature was last evicted or the dedup set was cleared
    begun,          \* the number of should_process calls begun
    issued,         \* the signatures those calls have carried
    observed,       \* the highest slot a should_process call has carried so far
    returned,       \* per provider thread: what its last should_process call
                    \* returned, and whether that call came late (its slot was
                    \* below observed - max_slot_lag when it was made)
    tracked,        \* the last call made on a SlotTracker used on its own: its
                    \* name, slot and return value, and the highest slot given
                    \* to update_slot before it since the last reset
    whiff,          \* the caller's WhiffBuffer (buffer, capacity, pressure_map)
    collapsed,      \* the collapse call made on the buffer as it is, with its result
    pushed,         \* per mint of the pressure map, the timestamp of its latest push
    history,        \* the should_process calls that have returned, in the order of
                    \* their return: provider, signature, slot, the branch that
                    \* returned and the value returned
    pathfinder,     \* the Graph of the pathfinder: id_to_mint and adjacency
    arbitrage,      \* the find_arbitrage_loop call made on the Graph as it is, with its result
    raw_channel,    \* the bounded channel from the provider tasks to the aggregator loop
    event_channel,  \* the bounded channel from the aggregator loop to the consumer
    running,        \* WssAggregator.running
    runtime,        \* the Tokio runtime: not yet built, up, or shut down
    aggregator,     \* the run_aggregator task: where it stands, the event it holds
                    \* and its seen_signatures and signature_order
    msg             \* msg_received, msg_accepted and msg_dropped

gvars == <<edges, pool_index, nodes, edge_count>>

qvars == <<found, held_scanner, scan>>

cvars == <<dedup, slot_tracker, accepted_count, duplicate_count, stale_count,
           calls, resetting, arrivals, begun, issued, observed, returned>>

vars == <<edges, pool_index, nodes, edge_count, last, found, held_scanner, scan,
          dedup, slot_tracker, accepted_count, duplicate_count, stale_count,
          calls, resetting, arrivals, begun, issued, observed, returned,
          tracked, whiff, collapsed, pushed, history,
          pathfinder, arbitrage,
          raw_channel, event_channel, running, runtime, aggregator, msg>>

\* the variables of the components used on their own
svars == <<tracked>>

wvars == <<whiff, collapsed, pushed>>

hvars == <<history>>

pvars == <<pathfinder, arbitrage>>

avars == <<raw_channel, event_channel, running, runtime, aggregator, msg>>

----------------------------------------------------------------------------
(* Bounds of the graph model *)

Dirs == {<<"SOL", "USDC">>, <<"USDC", "SOL">>}    \* (source, target) of an edge
Pools == {"p1", "p2"}
Rates == {0, 90, 102}              \* 0.0 (invalid), 0.90, 1.02
SetRates == {90}                   \* rates written through the setter
Terms == {<<25, 1000>>, <<30, 5000>>}             \* (fee_bps, liquidity_usd)
MaxSlot == 2
Slots == 1..MaxSlot
Dexes == {"RAYDIUM"}

----------------------------------------------------------------------------
(* f64 arithmetic on the scales above *)

\* f64::INFINITY as a weight
Inf == 1000000

\* f64::ln on the rates of the model, in hundredths, rounded to nearest
Ln(rate) ==
    CASE rate = 80 -> -22
      [] rate = 90 -> -11
      [] rate = 100 -> 0
      [] rate = 102 -> 2
      [] rate = 125 -> 22

\* f64 addition of weights: anything plus infinity is infinity
WAdd(a, b) == IF a = Inf \/ b = Inf THEN Inf ELSE a + b

\* terms of the exponential series that are summed
ExpTerms == 14

\* sum of the series of exp(x / 100) in millionths, from term k on
RECURSIVE ExpSeries(_, _, _)
ExpSeries(x, k, term) ==
    IF k > ExpTerms THEN 0
    ELSE term + ExpSeries(x, k + 1, (term * x) \div (100 * (k + 1)))

\* f64::exp of a weight negated, (-w).exp(), in millionths; exp(-inf) is 0
ExpNeg(w) == IF w = Inf THEN 0 ELSE ExpSeries(-w, 0, 1000000)

\* ((-total_weight).exp() - 1.0) * 100.0, in units of 0.0001 percent
ProfitPct(total_weight) == ExpNeg(total_weight) - 1000000

\* A fraction is written in units of 0.00001 (200 is 0.002) and a percentage
\* in units of 0.0001 percent: "fraction * 100.0" and "pct / 100.0"
Times100(fraction) == fraction * 10
Over100(pct) == pct \div 10

----------------------------------------------------------------------------
(* PoolEdge *)

\* the weight expression shared by PoolEdge::new and recalculate_weight
WeightOf(exchange_rate) ==
    IF exchange_rate > 0 THEN -Ln(exchange_rate) ELSE Inf

PoolEdgeNew(source_mint, target_mint, pool_address, exchange_rate, fee_bps, liquidity_usd, last_update_slot, dex) ==
    [source_mint |-> source_mint,
     target_mint |-> target_mint,
     pool_address |-> pool_address,
     exchange_rate |-> exchange_rate,
     weight |-> WeightOf(exchange_rate),
     fee_bps |-> fee_bps,
     liquidity_usd |-> liquidity_usd,
     last_update_slot |-> last_update_slot,
     dex |-> dex]

\* the pyo3 setter of the public field exchange_rate: the weight is left alone
SetExchangeRate(edge, exchange_rate) ==
    [edge EXCEPT !.exchange_rate = exchange_rate]

RecalculateWeight(edge) ==
    [edge EXCEPT !.weight = WeightOf(edge.exchange_rate)]

IsStale(edge, min_slot) == edge.last_update_slot < min_slot

----------------------------------------------------------------------------
(* HopGraph *)

\* HashMap::insert and HashMap::remove
MapPut(m, k, v) == [x \in (DOMAIN m) \cup {k} |-> IF x = k THEN v ELSE m[x]]
MapDel(m, ks) == [x \in (DOMAIN m) \ ks |-> m[x]]

EmptyMap == [x \in {} |-> 0]

HopGraphNew ==
    [edges |-> EmptyMap, pool_index |-> EmptyMap, nodes |-> {}, edge_count |-> 0]

\* the graph value held in the state variables
G == [edges |-> edges, pool_index |-> pool_index, nodes |-> nodes,
      edge_count |-> edge_count]

\* the graph value after the step
GNext == [edges |-> edges', pool_index |-> pool_index', nodes |-> nodes',
          edge_count |-> edge_count']

\* True when the pool is indexed and the index entry resolves to a slot
Resolves(g, pool_address) ==
    /\ pool_address \in DOMAIN g.pool_index
    /\ g.pool_index[pool_address].source \in DOMAIN g.edges
    /\ g.pool_index[pool_address].idx < Len(g.edges[g.pool_index[pool_address].source])

\* update_edge without the in-place branch: every call appends
UpdateEdge_AlwaysAppend(g, edge) ==
    LET source == edge.source_mint
        edges_vec == IF source \in DOMAIN g.edges THEN g.edges[source] ELSE <<>>
    IN  [edges |-> MapPut(g.edges, source, Append(edges_vec, edge)),
         pool_index |-> MapPut(g.pool_index, edge.pool_address,
                               [source |-> source, idx |-> Len(edges_vec)]),
         nodes |-> g.nodes \cup {edge.source_mint, edge.target_mint},
         edge_count |-> g.edge_count + 1]

UpdateEdge(g, edge) ==
    LET nodes1 == g.nodes \cup {edge.source_mint, edge.target_mint}
    IN  IF Resolves(g, edge.pool_address)
        THEN \* update the existing edge in place
             LET source == g.pool_index[edge.pool_address].source
                 idx == g.pool_index[edge.pool_address].idx
                 existing == g.edges[source][idx + 1]
                 updated == [existing EXCEPT
                                !.exchange_rate = edge.exchange_rate,
                                !.weight = edge.weight,
                                !.liquidity_usd = edge.liquidity_usd,
                                !.last_update_slot = edge.last_update_slot,
                                !.fee_bps = edge.fee_bps]
             IN  [g EXCEPT !.nodes = nodes1,
                           !.edges = [g.edges EXCEPT ![source][idx + 1] = updated]]
        ELSE \* new edge: push on the source's adjacency list
             LET source == edge.source_mint
                 edges_vec == IF source \in DOMAIN g.edges
                              THEN g.edges[source] ELSE <<>>
             IN  [edges |-> MapPut(g.edges, source, Append(edges_vec, edge)),
                  pool_index |-> MapPut(g.pool_index, edge.pool_address,
                                        [source |-> source, idx |-> Len(edges_vec)]),
                  nodes |-> nodes1,
                  edge_count |-> g.edge_count + 1]

GetOutbound(g, mint) == IF mint \in DOMAIN g.edges THEN g.edges[mint] ELSE <<>>

\* Option<PoolEdge> as a set with at most one element
GetEdge(g, pool_address) ==
    IF pool_address \in DOMAIN g.pool_index
    THEN LET source == g.pool_index[pool_address].source
             idx == g.pool_index[pool_address].idx
         IN  IF source \in DOMAIN g.edges /\ idx < Len(g.edges[source])
             THEN {g.edges[source][idx + 1]}
             ELSE {}
    ELSE {}

HasNode(g, mint) == mint \in g.nodes

\* the largest position of kept that holds the pool
LastPos(kept, pool_address) ==
    CHOOSE i \in 1..Len(kept) :
        /\ kept[i].pool_address = pool_address
        /\ \A j \in (i + 1)..Len(kept) : kept[j].pool_address # pool_address

\* prune_stale without the loop that re-indexes the surviving edges
Reindex_Skip(index, source, kept) == index

\* pool_index after "for (idx, edge) in edges.iter().enumerate() { insert }"
Reindex(index, source, kept) ==
    LET here == {kept[i].pool_address : i \in 1..Len(kept)}
    IN  [p \in (DOMAIN index) \cup here |->
            IF p \in here
            THEN [source |-> source, idx |-> LastPos(kept, p) - 1]
            ELSE index[p]]

\* one turn of the loop over self.edges.iter_mut() in prune_stale
PruneSource(acc, source, min_slot) ==
    LET vec == acc.edges[source]
        stale == {vec[i].pool_address : i \in {j \in 1..Len(vec) : IsStale(vec[j], min_slot)}}
        kept == SelectSeq(vec, LAMBDA e : ~IsStale(e, min_slot))
        removed == Len(vec) - Len(kept)
    IN  [edges |-> [acc.edges EXCEPT ![source] = kept],
         pool_index |-> Reindex(acc.pool_index, source, kept),
         edge_count |-> acc.edge_count - removed,
         pruned |-> acc.pruned + removed,
         pools_to_remove |-> acc.pools_to_remove \cup stale]

RECURSIVE PruneLoop(_, _, _)
PruneLoop(acc, order, min_slot) ==
    IF order = <<>> THEN acc
    ELSE PruneLoop(PruneSource(acc, Head(order), min_slot), Tail(order), min_slot)

\* prune_stale that leaves the pool_index entries of the pruned pools
PruneStale_KeepIndex(g, min_slot, order) ==
    LET start == [edges |-> g.edges, pool_index |-> g.pool_index,
                  edge_count |-> g.edge_count, pruned |-> 0, pools_to_remove |-> {}]
        done == PruneLoop(start, order, min_slot)
        nonempty == {s \in DOMAIN done.edges : done.edges[s] # <<>>}
    IN  [graph |-> [edges |-> [s \in nonempty |-> done.edges[s]],
                    pool_index |-> done.pool_index,
                    nodes |-> g.nodes,
                    edge_count |-> done.edge_count],
         pruned |-> done.pruned]

\* prune_stale with the HashMap visited in the given order of its keys;
\* the result carries the graph and the returned count
PruneStale(g, min_slot, order) ==
    LET start == [edges |-> g.edges, pool_index |-> g.pool_index,
                  edge_count |-> g.edge_count, pruned |-> 0, pools_to_remove |-> {}]
        done == PruneLoop(start, order, min_slot)
        nonempty == {s \in DOMAIN done.edges : done.edges[s] # <<>>}
    IN  [graph |-> [edges |-> [s \in nonempty |-> done.edges[s]],
                    pool_index |-> MapDel(done.pool_index, done.pools_to_remove),
                    nodes |-> g.nodes,
                    edge_count |-> done.edge_count],
         pruned |-> done.pruned]

Clear(g) == HopGraphNew

\* the orders in which a HashMap with key set S can be iterated
Orders(S) ==
    {o \in [1..Cardinality(S) -> S] : \A i, j \in 1..Cardinality(S) : o[i] = o[j] => i = j}

----------------------------------------------------------------------------
(* CycleFinder *)

Contains(seq, x) == \E i \in 1..Len(seq) : seq[i] = x

\* path[1..]
Rest(path) == SubSeq(path, 2, Len(path))

Min(a, b) == IF a < b THEN a ELSE b

U16Max == 65535
U64Max == 2147483647       \* u64::MAX, as the largest integer of the model

\* CycleFinder::new: max_hops is clamped to 3..5
CycleFinderNew(max_hops, min_profit_threshold, min_liquidity_usd) ==
    [max_hops |-> IF max_hops < 3 THEN 3 ELSE IF max_hops > 5 THEN 5 ELSE max_hops,
     min_profit_threshold |-> min_profit_threshold,
     min_liquidity_usd |-> min_liquidity_usd]

\* The frame of one dfs_find_cycles call: its by-value arguments
Frame(current_mint, path, pools, dexes, total_weight, min_liquidity, total_fees, depth) ==
    [current_mint |-> current_mint, path |-> path, pools |-> pools, dexes |-> dexes,
     total_weight |-> total_weight, min_liquidity |-> min_liquidity,
     total_fees |-> total_fees, depth |-> depth]

\* the frame entered through edge from frame fr
Push(fr, edge) ==
    Frame(edge.target_mint, Append(fr.path, edge.target_mint),
          Append(fr.pools, edge.pool_address), Append(fr.dexes, edge.dex),
          WAdd(fr.total_weight, edge.weight),
          Min(fr.min_liquidity, edge.liquidity_usd),
          fr.total_fees + edge.fee_bps, fr.depth + 1)

\* the frame find_cycles builds for an initial edge
FirstFrame(start_mint, edge) ==
    Frame(edge.target_mint, <<start_mint, edge.target_mint>>,
          <<edge.pool_address>>, <<edge.dex>>, edge.weight,
          edge.liquidity_usd, edge.fee_bps, 1)

\* a HopCycle built without the pool of the closing edge
HopCycle_DropPool(fr, edge, start_mint) ==
    [path |-> Append(fr.path, start_mint),
     pool_addresses |-> fr.pools,
     theoretical_profit_pct |-> ProfitPct(WAdd(fr.total_weight, edge.weight)),
     min_liquidity_usd |-> Min(fr.min_liquidity, edge.liquidity_usd),
     total_fee_bps |-> Min(fr.total_fees + edge.fee_bps, U16Max),
     hop_count |-> fr.depth + 1,
     total_weight |-> WAdd(fr.total_weight, edge.weight)]

\* the HopCycle pushed when edge closes the path of frame fr
HopCycle(fr, edge, start_mint) ==
    [path |-> Append(fr.path, start_mint),
     pool_addresses |-> Append(fr.pools, edge.pool_address),
     theoretical_profit_pct |-> ProfitPct(WAdd(fr.total_weight, edge.weight)),
     min_liquidity_usd |-> Min(fr.min_liquidity, edge.liquidity_usd),
     total_fee_bps |-> Min(fr.total_fees + edge.fee_bps, U16Max),
     hop_count |-> fr.depth + 1,
     total_weight |-> WAdd(fr.total_weight, edge.weight)]

\* a revisit test that does not exempt the start
Revisits_Start(path, edge, start_mint) ==
    Contains(path, edge.target_mint)

\* "skip if we'd revisit an intermediate node (not start)"
Revisits(path, edge, start_mint) ==
    Contains(Rest(path), edge.target_mint) /\ edge.target_mint # start_mint

\* the test that lets a closed cycle into the results
Profitable(profit_pct, min_profit) == profit_pct >= Times100(min_profit)

\* dfs_find_cycles from the i-th outbound edge of the frame's mint on;
\* the value is the results vector after the call
RECURSIVE DfsFindCycles(_, _, _, _, _, _)
DfsFindCycles(finder, graph, start_mint, fr, i, results) ==
    LET out == GetOutbound(graph, fr.current_mint)
    IN  IF i > Len(out) THEN results
        ELSE
        LET edge == out[i]
            new_weight == WAdd(fr.total_weight, edge.weight)
        IN  IF edge.liquidity_usd < finder.min_liquidity_usd
            THEN DfsFindCycles(finder, graph, start_mint, fr, i + 1, results)
            ELSE IF Revisits(fr.path, edge, start_mint)
            THEN DfsFindCycles(finder, graph, start_mint, fr, i + 1, results)
            ELSE IF edge.target_mint = start_mint /\ fr.depth >= 2
            THEN DfsFindCycles(finder, graph, start_mint, fr, i + 1,
                    IF Profitable(ProfitPct(new_weight), finder.min_profit_threshold)
                    THEN Append(results, HopCycle(fr, edge, start_mint))
                    ELSE results)
            ELSE IF fr.depth < finder.max_hops - 1
            THEN DfsFindCycles(finder, graph, start_mint, fr, i + 1,
                    DfsFindCycles(finder, graph, start_mint, Push(fr, edge), 1, results))
            ELSE DfsFindCycles(finder, graph, start_mint, fr, i + 1, results)

\* stable sort by profit, best first: insertion of c behind its equals
RECURSIVE InsertDesc(_, _, _)
InsertDesc(sorted, c, key) ==
    IF sorted = <<>> THEN <<c>>
    ELSE IF c[key] > Head(sorted)[key]
         THEN <<c>> \o sorted
         ELSE <<Head(sorted)>> \o InsertDesc(Tail(sorted), c, key)

RECURSIVE SortDesc(_, _)
SortDesc(cycles, key) ==
    IF cycles = <<>> THEN <<>>
    ELSE InsertDesc(SortDesc(SubSeq(cycles, 1, Len(cycles) - 1), key),
                    cycles[Len(cycles)], key)

\* the loop of find_cycles over the initial edges
RECURSIVE FindFrom(_, _, _, _, _)
FindFrom(finder, graph, start_mint, i, results) ==
    LET out == GetOutbound(graph, start_mint)
    IN  IF i > Len(out) THEN results
        ELSE IF out[i].liquidity_usd < finder.min_liquidity_usd
        THEN FindFrom(finder, graph, start_mint, i + 1, results)
        ELSE FindFrom(finder, graph, start_mint, i + 1,
                DfsFindCycles(finder, graph, start_mint,
                              FirstFrame(start_mint, out[i]), 1, results))

FindCycles(finder, graph, start_mint) ==
    IF ~HasNode(graph, start_mint) THEN <<>>
    ELSE SortDesc(FindFrom(finder, graph, start_mint, 1, <<>>),
                  "theoretical_profit_pct")

\* edges.iter().find(|e| e.target_mint == *target): the first such position, 0 if none
FindTarget(out, target) ==
    IF \E i \in 1..Len(out) : out[i].target_mint = target
    THEN CHOOSE i \in 1..Len(out) :
            /\ out[i].target_mint = target
            /\ \A j \in 1..(i - 1) : out[j].target_mint # target
    ELSE 0

\* the loop of validate_path from hop i on; acc.ok turns false at a missing edge
RECURSIVE ValidateFrom(_, _, _, _)
ValidateFrom(graph, path, i, acc) ==
    IF i > Len(path) - 1 THEN acc
    ELSE LET out == GetOutbound(graph, path[i])
             k == FindTarget(out, path[i + 1])
         IN  IF k = 0 THEN [acc EXCEPT !.ok = FALSE]
             ELSE ValidateFrom(graph, path, i + 1,
                    [ok |-> TRUE,
                     total_weight |-> WAdd(acc.total_weight, out[k].weight),
                     min_liquidity |-> Min(acc.min_liquidity, out[k].liquidity_usd),
                     total_fees |-> acc.total_fees + out[k].fee_bps,
                     pool_addresses |-> Append(acc.pool_addresses, out[k].pool_address)])

\* validate_path: Option<HopCycle> as a sequence with at most one element
ValidatePath(finder, graph, path) ==
    IF Len(path) < 3 \/ path[1] # path[Len(path)] THEN <<>>
    ELSE LET acc == ValidateFrom(graph, path, 1,
                        [ok |-> TRUE, total_weight |-> 0, min_liquidity |-> U64Max,
                         total_fees |-> 0, pool_addresses |-> <<>>])
             profit_pct == ProfitPct(acc.total_weight)
         IN  IF ~acc.ok THEN <<>>
             ELSE IF profit_pct < Times100(finder.min_profit_threshold) THEN <<>>
             ELSE <<[path |-> path,
                     pool_addresses |-> acc.pool_addresses,
                     theoretical_profit_pct |-> profit_pct,
                     min_liquidity_usd |-> acc.min_liquidity,
                     total_fee_bps |-> Min(acc.total_fees, U16Max),
                     hop_count |-> Len(path) - 1,
                     total_weight |-> acc.total_weight]>>

----------------------------------------------------------------------------
(* MultiverseScanner *)

Clamp(x, lo, hi) == IF x < lo THEN lo ELSE IF x > hi THEN hi ELSE x

\* the default thresholds of MultiverseScanner::new, 0.20, 0.15, 0.10, 0.08
DefaultThresholds == (2 :> 20000) @@ (3 :> 15000) @@ (4 :> 10000) @@ (5 :> 8000)

\* unwrap_or(0.10) of scan_multiverse
FallbackThreshold == 10000

\* MultiverseScanner::new; the memo cache is emptied at the start of every
\* scan and is carried by the scan, not by this record
MultiverseScannerNew(min_hops, max_hops, min_liquidity_usd, max_cycles_per_level) ==
    [min_hops |-> Clamp(min_hops, 2, 5),
     max_hops |-> Clamp(max_hops, 2, 5),
     min_profit_thresholds |-> DefaultThresholds,
     min_liquidity_usd |-> min_liquidity_usd,
     max_cycles_per_level |-> max_cycles_per_level]

SetThreshold(scanner, hop_count, min_profit_pct) ==
    IF hop_count \in 2..5
    THEN [scanner EXCEPT !.min_profit_thresholds =
            MapPut(@, hop_count, Over100(min_profit_pct))]
    ELSE scanner

\* the MultiverseCycle pushed when edge closes the path of frame fr
MultiverseCycle(fr, edge, start_mint) ==
    [path |-> Append(fr.path, start_mint),
     pool_addresses |-> Append(fr.pools, edge.pool_address),
     hop_count |-> fr.depth + 1,
     profit_pct |-> ProfitPct(WAdd(fr.total_weight, edge.weight)),
     min_liquidity_usd |-> Min(fr.min_liquidity, edge.liquidity_usd),
     total_fee_bps |-> Min(fr.total_fees + edge.fee_bps, U16Max),
     dexes |-> Append(fr.dexes, edge.dex),
     estimated_gas_lamports |-> (fr.depth + 1) * 80000 * 5]

\* new_weight + (-0.003 * remaining_hops) > 0.0, with weights in hundredths
TooHeavy(new_weight, remaining_hops) ==
    new_weight = Inf \/ 10 * new_weight > 3 * remaining_hops

\* The scan's running state: the results vector of the level, the memo
\* cache and the two counters of ScanStats
Run(results, memo, paths_explored, paths_pruned) ==
    [results |-> results, memo |-> memo,
     paths_explored |-> paths_explored, paths_pruned |-> paths_pruned]

Pruned(run) == [run EXCEPT !.paths_pruned = @ + 1]

RECURSIVE DfsExactHops(_, _, _, _, _, _, _)
RECURSIVE DfsExactLoop(_, _, _, _, _, _, _, _)

\* the loop of dfs_exact_hops over the outbound edges, from the i-th on
DfsExactLoop(scanner, graph, start_mint, fr, target_hops, min_profit, i, run) ==
    LET out == GetOutbound(graph, fr.current_mint)
    IN  IF i > Len(out) THEN run
        ELSE
        LET edge == out[i]
            new_weight == WAdd(fr.total_weight, edge.weight)
            next(r) == DfsExactLoop(scanner, graph, start_mint, fr, target_hops,
                                    min_profit, i + 1, r)
        IN  IF edge.liquidity_usd < scanner.min_liquidity_usd
            THEN next(Pruned(run))
            ELSE IF Revisits(fr.path, edge, start_mint)
            THEN next(run)
            ELSE IF edge.target_mint = start_mint /\ fr.depth + 1 = target_hops
            THEN next(IF Profitable(ProfitPct(new_weight), min_profit)
                      THEN [run EXCEPT !.results =
                                Append(@, MultiverseCycle(fr, edge, start_mint))]
                      ELSE run)
            ELSE IF fr.depth < target_hops - 1
            THEN IF TooHeavy(new_weight, target_hops - fr.depth - 1)
                 THEN next(Pruned(run))
                 ELSE next(DfsExactHops(scanner, graph, start_mint, Push(fr, edge),
                                        target_hops, min_profit, run))
            ELSE next(run)

\* dfs_exact_hops: the memo check, then the loop
DfsExactHops(scanner, graph, start_mint, fr, target_hops, min_profit, run) ==
    LET memo_key == <<start_mint, fr.current_mint, fr.depth>>
        seen == [run EXCEPT !.paths_explored = @ + 1]
    IN  IF memo_key \in DOMAIN run.memo /\ fr.total_weight > run.memo[memo_key]
        THEN Pruned(seen)
        ELSE DfsExactLoop(scanner, graph, start_mint, fr, target_hops, min_profit, 1,
                          [seen EXCEPT !.memo = MapPut(@, memo_key, fr.total_weight)])

\* the loop of find_cycles_at_level over the initial edges
RECURSIVE LevelFrom(_, _, _, _, _, _, _)
LevelFrom(scanner, graph, start_mint, target_hops, min_profit, i, run) ==
    LET out == GetOutbound(graph, start_mint)
    IN  IF i > Len(out) THEN run
        ELSE IF out[i].liquidity_usd < scanner.min_liquidity_usd
        THEN LevelFrom(scanner, graph, start_mint, target_hops, min_profit, i + 1,
                       Pruned(run))
        ELSE LevelFrom(scanner, graph, start_mint, target_hops, min_profit, i + 1,
                DfsExactHops(scanner, graph, start_mint, FirstFrame(start_mint, out[i]),
                             target_hops, min_profit, run))

Truncate(seq, n) == IF Len(seq) > n THEN SubSeq(seq, 1, n) ELSE seq

\* find_cycles_at_level: the run after the level, its results sorted and cut
FindCyclesAtLevel(scanner, graph, start_mint, target_hops, min_profit, run) ==
    LET r == LevelFrom(scanner, graph, start_mint, target_hops, min_profit, 1,
                       [run EXCEPT !.results = <<>>])
    IN  [r EXCEPT !.results =
            Truncate(SortDesc(@, "profit_pct"), scanner.max_cycles_per_level)]

\* the loop of scan_multiverse over the hop levels; all maps the levels
\* that found something to their cycles
RECURSIVE ScanLevels(_, _, _, _, _, _)
ScanLevels(scanner, graph, start_mint, hop_level, all, run) ==
    IF hop_level > scanner.max_hops THEN [all |-> all, run |-> run]
    ELSE LET threshold == IF hop_level \in DOMAIN scanner.min_profit_thresholds
                          THEN scanner.min_profit_thresholds[hop_level]
                          ELSE FallbackThreshold
             r == FindCyclesAtLevel(scanner, graph, start_mint, hop_level, threshold, run)
         IN  ScanLevels(scanner, graph, start_mint, hop_level + 1,
                        IF r.results # <<>> THEN MapPut(all, hop_level, r.results) ELSE all,
                        r)

\* all_cycles.values().flatten() with the map's values visited in the given order
RECURSIVE Flatten(_, _)
Flatten(all, order) ==
    IF order = <<>> THEN <<>> ELSE all[Head(order)] \o Flatten(all, Tail(order))

\* max_by that answers the first element
MaxBy_First(seq, key) == IF seq = <<>> THEN <<>> ELSE <<seq[1]>>

\* Iterator::max_by: the last of the greatest elements, None for no element
MaxBy(seq, key) ==
    IF seq = <<>> THEN <<>>
    ELSE LET i == CHOOSE i \in 1..Len(seq) :
                    /\ \A j \in 1..Len(seq) : seq[j][key] <= seq[i][key]
                    /\ \A j \in (i + 1)..Len(seq) : seq[j][key] < seq[i][key]
         IN  <<seq[i]>>

Sum(f) ==
    LET RECURSIVE S(_)
        S(D) == IF D = {} THEN 0 ELSE LET x == CHOOSE x \in D : TRUE IN f[x] + S(D \ {x})
    IN  S(DOMAIN f)

NoStats == [total_cycles_found |-> 0, paths_explored |-> 0, paths_pruned |-> 0,
            memoization_hits |-> 0]

\* the part of scan_multiverse before best_cycle: the memo cache is cleared
\* and the levels are searched; an unknown start mint ends the scan at once
ScanStart(scanner, graph, start_mint) ==
    IF ~HasNode(graph, start_mint)
    THEN [known |-> FALSE, all |-> EmptyMap, run |-> Run(<<>>, EmptyMap, 0, 0)]
    ELSE LET done == ScanLevels(scanner, graph, start_mint, scanner.min_hops,
                                EmptyMap, Run(<<>>, EmptyMap, 0, 0))
         IN  [known |-> TRUE, all |-> done.all, run |-> done.run]

\* the MultiverseResult, with the HashMap of levels visited in the given
\* order; best_cycle is an Option written as a sequence with at most one element
ScanResult(done, order) ==
    IF ~done.known
    THEN [cycles_by_hops |-> EmptyMap, best_cycle |-> <<>>, scan_stats |-> NoStats]
    ELSE [cycles_by_hops |-> done.all,
          best_cycle |-> MaxBy(Flatten(done.all, order), "profit_pct"),
          scan_stats |->
            [total_cycles_found |-> Sum([k \in DOMAIN done.all |-> Len(done.all[k])]),
             paths_explored |-> done.run.paths_explored,
             paths_pruned |-> done.run.paths_pruned,
             memoization_hits |-> Cardinality(DOMAIN done.run.memo)]]

ScanMultiverse(scanner, graph, start_mint, order) ==
    ScanResult(ScanStart(scanner, graph, start_mint), order)

----------------------------------------------------------------------------
(* SignatureDedup *)

SignatureDedupNew(max_size) ==
    [seen |-> {}, max_size |-> max_size, eviction_batch |-> max_size \div 4]

\* the sets seen.iter().take(eviction_batch) can yield: the HashSet's
\* iteration order is arbitrary, so any eviction_batch of the stored
\* signatures (all of them when fewer are stored); nothing below capacity
ToRemove(d) ==
    IF Cardinality(d.seen) >= d.max_size
    THEN {S \in SUBSET d.seen : Cardinality(S) = Min(d.eviction_batch, Cardinality(d.seen))}
    ELSE {{}}

\* is_new that answers without inserting the signature
IsNew_Forget(d, signature, to_remove) ==
    [dedup |-> [d EXCEPT !.seen = @ \ to_remove],
     ret |-> signature \notin (d.seen \ to_remove)]

\* is_new that answers true whether or not the signature is stored
IsNew_AlwaysNew(d, signature, to_remove) ==
    [dedup |-> [d EXCEPT !.seen = (@ \ to_remove) \cup {signature}],
     ret |-> TRUE]

\* is_new with to_remove the batch it evicts: the dedup after the call and
\* the value returned
IsNew(d, signature, to_remove) ==
    [dedup |-> [d EXCEPT !.seen = (@ \ to_remove) \cup {signature}],
     ret |-> signature \notin (d.seen \ to_remove)]

DedupClear(d) == [d EXCEPT !.seen = {}]

----------------------------------------------------------------------------
(* SlotTracker *)

SlotTrackerNew(max_slot_lag) ==
    [latest_slot |-> 0, per_provider_slots |-> <<>>, max_slot_lag |-> max_slot_lag]

\* u64::saturating_sub
SaturatingSub(a, b) == IF a < b THEN 0 ELSE a - b

Max(a, b) == IF a >= b THEN a ELSE b

\* the per-provider loop of update_slot: the first entry of the provider
\* is raised to the slot, or an entry is pushed
NoteProvider(providers, provider, slot) ==
    IF \E i \in 1..Len(providers) : providers[i][1] = provider
    THEN LET i == CHOOSE k \in 1..Len(providers) :
                    /\ providers[k][1] = provider
                    /\ \A j \in 1..(k - 1) : providers[j][1] # provider
         IN  [providers EXCEPT ![i] = <<provider, Max(slot, providers[i][2])>>]
    ELSE Append(providers, <<provider, slot>>)

\* update_slot that compares with the provider's own mark, not the global one
UpdateSlot_PerProvider(t, provider, slot) ==
    LET noted == [t EXCEPT !.per_provider_slots = NoteProvider(@, provider, slot)]
        own == IF \E i \in 1..Len(t.per_provider_slots) : t.per_provider_slots[i][1] = provider
               THEN (CHOOSE e \in {t.per_provider_slots[i] : i \in 1..Len(t.per_provider_slots)} :
                        e[1] = provider)[2]
               ELSE 0
    IN  IF slot > own
        THEN [tracker |-> [noted EXCEPT !.latest_slot = Max(slot, t.latest_slot)], ret |-> 1]
        ELSE IF slot >= SaturatingSub(own, t.max_slot_lag)
        THEN [tracker |-> noted, ret |-> 0]
        ELSE [tracker |-> noted, ret |-> -1]

\* update_slot whose watermark follows the slot it was given last
UpdateSlot_Follow(t, provider, slot) ==
    LET noted == [t EXCEPT !.per_provider_slots = NoteProvider(@, provider, slot)]
    IN  [tracker |-> [noted EXCEPT !.latest_slot = slot],
         ret |-> IF slot > t.latest_slot THEN 1
                 ELSE IF slot >= SaturatingSub(t.latest_slot, t.max_slot_lag) THEN 0
                 ELSE -1]

\* update_slot: the tracker after the call and the value returned
UpdateSlot(t, provider, slot) ==
    LET noted == [t EXCEPT !.per_provider_slots = NoteProvider(@, provider, slot)]
    IN  IF slot > t.latest_slot
        THEN [tracker |-> [noted EXCEPT !.latest_slot = slot], ret |-> 1]
        ELSE IF slot >= SaturatingSub(t.latest_slot, t.max_slot_lag)
        THEN [tracker |-> noted, ret |-> 0]
        ELSE [tracker |-> noted, ret |-> -1]

\* reset, first statement: latest_slot under its lock
ResetLatest(t) == [t EXCEPT !.latest_slot = 0]

\* reset, second statement: per_provider_slots under its lock
ResetProviders(t) == [t EXCEPT !.per_provider_slots = <<>>]

IsAcceptable(t, slot) == slot >= SaturatingSub(t.latest_slot, t.max_slot_lag)

----------------------------------------------------------------------------
(* ConsensusEngine *)

\* the fields of ConsensusEngine::new
ConsensusEngineNew(max_signatures, max_slot_lag) ==
    [dedup |-> SignatureDedupNew(max_signatures),
     slot_tracker |-> SlotTrackerNew(max_slot_lag),
     accepted_count |-> 0, duplicate_count |-> 0, stale_count |-> 0]

\* should_process run from its first statement to its return with no other
\* call in between, to_remove being the batch is_new evicts: the engine
\* after the call and the value returned
ShouldProcess(e, provider, signature, slot, to_remove) ==
    LET slot_status == UpdateSlot(e.slot_tracker, provider, slot)
        checked == [e EXCEPT !.slot_tracker = slot_status.tracker]
        is_new == IsNew(e.dedup, signature, to_remove)
    IN  IF slot_status.ret < 0
        THEN [engine |-> [checked EXCEPT !.stale_count = @ + 1], ret |-> FALSE]
        ELSE IF ~is_new.ret
        THEN [engine |-> [checked EXCEPT !.dedup = is_new.dedup,
                                         !.duplicate_count = @ + 1],
              ret |-> FALSE]
        ELSE [engine |-> [checked EXCEPT !.dedup = is_new.dedup,
                                         !.accepted_count = @ + 1],
              ret |-> TRUE]

----------------------------------------------------------------------------
(* WhiffBuffer *)

WhiffBufferNew(capacity) ==
    [buffer |-> <<>>, capacity |-> capacity, pressure_map |-> EmptyMap]

\* PressureState::default
PressureDefault ==
    [bullish |-> 0, bearish |-> 0, volatile |-> 0, event_count |-> 0,
     last_update_ms |-> 0]

\* f32::min(1.0)
MinOne(x) == Min(x, 10)

\* weight * 0.3
Weight03(confidence) == (confidence * 3) \div 10

\* update_pressure: the entry of the mint, made if absent, gains
\* confidence * 0.3 on the accumulator its direction names and counts the
\* event; last_update_ms is not written
UpdatePressure(pressure_map, event) ==
    LET state == IF event.mint \in DOMAIN pressure_map
                 THEN pressure_map[event.mint] ELSE PressureDefault
        weight == event.confidence
        gained ==
            CASE event.direction = "BULLISH" ->
                    [state EXCEPT !.bullish = MinOne(@ + Weight03(weight))]
              [] event.direction = "BEARISH" ->
                    [state EXCEPT !.bearish = MinOne(@ + Weight03(weight))]
              [] event.direction = "VOLATILE" ->
                    [state EXCEPT !.volatile = MinOne(@ + Weight03(weight))]
              [] OTHER -> state
    IN  MapPut(pressure_map, event.mint, [gained EXCEPT !.event_count = @ + 1])

WhiffEventInternal(event, timestamp_ms) ==
    [event |-> event, timestamp_ms |-> timestamp_ms]

\* push: update_pressure, then the front is popped at capacity and the
\* event appended
WhiffPush(w, event, timestamp_ms) ==
    LET kept == IF Len(w.buffer) >= w.capacity /\ w.buffer # <<>>
                THEN Tail(w.buffer) ELSE w.buffer
    IN  [w EXCEPT !.pressure_map = UpdatePressure(@, event),
                  !.buffer = Append(kept, WhiffEventInternal(event, timestamp_ms))]

\* the loop of collapse over buffer[i..]: latest_per_mint
RECURSIVE CollapseLoop(_, _, _, _)
CollapseLoop(buffer, i, cutoff, latest_per_mint) ==
    IF i > Len(buffer) THEN latest_per_mint
    ELSE LET item == buffer[i]
             key == item.event.mint
             next ==
                IF item.timestamp_ms >= cutoff
                THEN IF key \in DOMAIN latest_per_mint
                         /\ latest_per_mint[key].timestamp_ms >= item.timestamp_ms
                     THEN latest_per_mint
                     ELSE MapPut(latest_per_mint, key, item)
                ELSE latest_per_mint
         IN  CollapseLoop(buffer, i + 1, cutoff, next)

\* collapse up to the HashMap it has filled
LatestPerMint(w, window_ms, current_time_ms) ==
    CollapseLoop(w.buffer, 1, SaturatingSub(current_time_ms, window_ms), EmptyMap)

\* collapse: the events of latest_per_mint.values(), which come in the
\* HashMap's order
WhiffCollapse(latest_per_mint, order) ==
    [i \in 1..Len(order) |-> latest_per_mint[order[i]].event]

WhiffClear(w) == [w EXCEPT !.buffer = <<>>, !.pressure_map = EmptyMap]

\* the first loop of prune: events are popped from the front while the
\* front is older than the cutoff
RECURSIVE PopOld(_, _)
PopOld(buffer, cutoff) ==
    IF buffer # <<>> /\ Head(buffer).timestamp_ms < cutoff
    THEN PopOld(Tail(buffer), cutoff)
    ELSE buffer

\* x * 0.9
Decay(x) == (x * 9) \div 10

DecayWindow == 30000

\* the second loop of prune: the accumulators of the mints whose
\* last_update_ms is before the decay cutoff
DecayPressure(pressure_map, current_time_ms) ==
    LET decay_cutoff == SaturatingSub(current_time_ms, DecayWindow)
    IN  [m \in DOMAIN pressure_map |->
            IF pressure_map[m].last_update_ms < decay_cutoff
            THEN [pressure_map[m] EXCEPT !.bullish = Decay(@),
                                         !.bearish = Decay(@),
                                         !.volatile = Decay(@)]
            ELSE pressure_map[m]]

WhiffPrune(w, max_age_ms, current_time_ms) ==
    [w EXCEPT !.buffer = PopOld(@, SaturatingSub(current_time_ms, max_age_ms)),
              !.pressure_map = DecayPressure(@, current_time_ms)]

----------------------------------------------------------------------------
(* Graph of the pathfinder (lib.rs): tokens interned to ids, ids from 1 *)

PathGraphNew == [adjacency |-> <<>>, id_to_mint |-> <<>>]

\* mint_to_id.get: the id of the mint, 0 for None
MintId(g, mint) ==
    IF \E i \in 1..Len(g.id_to_mint) : g.id_to_mint[i] = mint
    THEN CHOOSE i \in 1..Len(g.id_to_mint) : g.id_to_mint[i] = mint
    ELSE 0

\* steps 1 and 2 of update_edge: a new token gets the next id and an empty
\* adjacency list
Intern(g, mint) ==
    IF MintId(g, mint) # 0 THEN g
    ELSE [adjacency |-> Append(g.adjacency, <<>>),
          id_to_mint |-> Append(g.id_to_mint, mint)]

\* -safe_price.ln() on the prices of the model, all above 1e-9
PriceWeight(price) == -Ln(price)

\* step 4 of update_edge: the first edge to the target is overwritten,
\* else the edge is pushed
Upsert(out, target_id, pool_id, weight) ==
    IF \E i \in 1..Len(out) : out[i].target_id = target_id
    THEN LET i == CHOOSE i \in 1..Len(out) :
                    /\ out[i].target_id = target_id
                    /\ \A j \in 1..(i - 1) : out[j].target_id # target_id
         IN  [out EXCEPT ![i] = [@ EXCEPT !.weight = weight, !.pool_id = pool_id]]
    ELSE Append(out, [target_id |-> target_id, pool_id |-> pool_id, weight |-> weight])

PathUpdateEdge(g, source_mint, target_mint, pool_id, price) ==
    LET interned == Intern(Intern(g, source_mint), target_mint)
        source_id == MintId(interned, source_mint)
        target_id == MintId(interned, target_mint)
    IN  [interned EXCEPT !.adjacency[source_id] =
            Upsert(@, target_id, pool_id, PriceWeight(price))]

\* reconstruct_path: pool ids pushed while walking the parents back from
\* curr, until a node comes again or has no parent (0); the value is the
\* vector before path.reverse()
RECURSIVE Backtrack(_, _, _, _, _)
Backtrack(curr, parent_node, parent_pool, visited, path) ==
    IF parent_node[curr] = 0 THEN path
    ELSE IF curr \in visited THEN path
    ELSE Backtrack(parent_node[curr], parent_node, parent_pool,
                   visited \cup {curr}, Append(path, parent_pool[curr]))

Reverse(seq) == [i \in 1..Len(seq) |-> seq[Len(seq) + 1 - i]]

ReconstructPath(g, end_id, parent_node, parent_pool) ==
    Reverse(Backtrack(end_id, parent_node, parent_pool, {}, <<>>))

\* the for loop of find_arbitrage_loop over the edges of u from the i-th
\* on; st.hit is the node whose count went above n, 0 while there is none
RECURSIVE RelaxEdges(_, _, _, _)
RelaxEdges(g, st, u, i) ==
    IF i > Len(g.adjacency[u]) THEN st
    ELSE LET edge == g.adjacency[u][i]
             v == edge.target_id
             n == Len(g.id_to_mint)
         IN  IF WAdd(st.dist[u], edge.weight) < st.dist[v]
             THEN LET relaxed == [st EXCEPT !.dist[v] = WAdd(st.dist[u], edge.weight),
                                            !.parent_node[v] = u,
                                            !.parent_pool[v] = edge.pool_id]
                  IN  IF ~st.in_queue[v]
                      THEN IF st.count[v] + 1 > n
                           THEN [relaxed EXCEPT !.count[v] = @ + 1, !.hit = v]
                           ELSE RelaxEdges(g, [relaxed EXCEPT !.count[v] = @ + 1,
                                                              !.queue = Append(@, v),
                                                              !.in_queue[v] = TRUE],
                                           u, i + 1)
                      ELSE RelaxEdges(g, relaxed, u, i + 1)
             ELSE RelaxEdges(g, st, u, i + 1)

\* the while loop of find_arbitrage_loop
RECURSIVE Spfa(_, _)
Spfa(g, st) ==
    IF st.hit # 0 \/ st.queue = <<>> THEN st
    ELSE LET u == Head(st.queue)
         IN  Spfa(g, RelaxEdges(g, [st EXCEPT !.queue = Tail(@), !.in_queue[u] = FALSE],
                                u, 1))

FindArbitrageLoop(g, start_mint) ==
    LET start_id == MintId(g, start_mint)
        ids == 1..Len(g.id_to_mint)
    IN  IF start_id = 0 THEN <<>>
        ELSE LET st == Spfa(g, [dist |-> [v \in ids |-> IF v = start_id THEN 0 ELSE Inf],
                                parent_node |-> [v \in ids |-> 0],
                                parent_pool |-> [v \in ids |-> ""],
                                count |-> [v \in ids |-> 0],
                                in_queue |-> [v \in ids |-> v = start_id],
                                queue |-> <<start_id>>,
                                hit |-> 0])
             IN  IF st.hit # 0
                 THEN ReconstructPath(g, st.hit, st.parent_node, st.parent_pool)
                 ELSE <<>>

----------------------------------------------------------------------------
(* The callers of the graph *)

NoEdge == PoolEdgeNew("", "", "", 0, 0, 0, 0, "")

\* The PoolEdge values a caller can hand to update_edge: built by
\* PoolEdge::new, then possibly given another exchange_rate through the
\* field's setter, then possibly passed through recalculate_weight.
EdgeInputs(dirs, pools, rates, set_rates, terms, slots, dexes) ==
    LET built == {PoolEdgeNew(d[1], d[2], p, r, t[1], t[2], sl, x) :
                    d \in dirs, p \in pools, r \in rates,
                    t \in terms, sl \in slots, x \in dexes}
        reset == {SetExchangeRate(e, r) : e \in built, r \in set_rates}
    IN  built \cup reset \cup {RecalculateWeight(e) : e \in reset}

SetGraph(g) ==
    /\ edges' = g.edges
    /\ pool_index' = g.pool_index
    /\ nodes' = g.nodes
    /\ edge_count' = g.edge_count

\* the record kept of a call
Called(op, edge, min_slot, ret, prev_rate, moved) ==
    [op |-> op, edge |-> edge, min_slot |-> min_slot, ret |-> ret,
     prev_rate |-> prev_rate, moved |-> moved]

\* no rate: get_edge was None, or the call is not update_edge
NoRate == {}

\* the exchange rate get_edge reports for the pool, an Option written as a
\* set with at most one element
StoredRate(g, pool_address) ==
    {e.exchange_rate : e \in GetEdge(g, pool_address)}

\* the pools indexed before and after whose position changed
Moved(g, h) ==
    Cardinality({p \in (DOMAIN g.pool_index) \cap (DOMAIN h.pool_index) :
                    g.pool_index[p] # h.pool_index[p]})

CallUpdateEdge ==
    \E edge \in EdgeInputs(Dirs, Pools, Rates, SetRates, Terms, Slots, Dexes) :
        /\ SetGraph(UpdateEdge(G, edge))
        /\ last' = Called("update_edge", edge, 0, 0,
                          StoredRate(G, edge.pool_address), 0)

CallPruneStale ==
    \E min_slot \in 0..(MaxSlot + 1), order \in Orders(DOMAIN edges) :
        LET r == PruneStale(G, min_slot, order)
        IN  /\ SetGraph(r.graph)
            /\ last' = Called("prune_stale", NoEdge, min_slot, r.pruned,
                              NoRate, Moved(G, r.graph))

CallClear ==
    /\ SetGraph(Clear(G))
    /\ last' = Called("clear", NoEdge, 0, 0, NoRate, 0)

\* Bounds of the engine model: the engine is built with a capacity of
\* MaxSignatures and the default max_slot_lag, and at most MaxCalls
\* should_process calls are begun
MaxSignatures == 4
MaxSlotLag == 2
MaxCalls == 5
Providers == {"helius", "alchemy"}
SignatureOrder == <<"s1", "s2", "s3", "s4">>
Signatures == {SignatureOrder[i] : i \in DOMAIN SignatureOrder}
SlotArgs == {1, 4}

\* the record kept of a call on the SlotTracker; resetting tells that a
\* reset has zeroed latest_slot and not yet cleared per_provider_slots
Tracked(op, slot, ret, before, in_reset) ==
    [op |-> op, slot |-> slot, ret |-> ret, before |-> before, resetting |-> in_reset]

MaxTrackedSlot == 4

WhiffCapacity == 2
MaxEvents == 2
Mints == {"BONK", "WIF"}
Directions == {"BULLISH", "NEUTRAL"}
Confidences == {10}
WhiffEvents ==
    [whiff_type : {"WHALE"}, mint : Mints, amount : {1}, confidence : Confidences,
     direction : Directions, source : {"CCTP"}]
TimeArgs == 0..2
WindowArgs == {1, 5}
PruneArgs == {<<1, 2>>, <<1, 30001>>, <<1, 30002>>}      \* (max_age_ms, current_time_ms)

\* no collapse call made on the buffer as it is
NoCollapse ==
    [made |-> FALSE, window_ms |-> 0, current_time_ms |-> 0, result |-> <<>>]

\* the run_aggregator task before start spawns it
NotSpawned ==
    [at |-> "none", event |-> <<>>, seen_signatures |-> {}, signature_order |-> <<>>]

\* no find_arbitrage_loop call made on the Graph as it is
NoLoop == [made |-> FALSE, start_mint |-> "", ret |-> <<>>]

\* a provider thread that is in no call
NoCall == [at |-> "idle", signature |-> "", slot |-> 0]

\* a provider thread that has made no call yet
NoReturn == [made |-> FALSE, late |-> FALSE, ret |-> FALSE]

\* what a call returned
Return(late, ret) == [made |-> TRUE, late |-> late, ret |-> ret]

NoFound ==
    [op |-> "none", finder |-> CycleFinderNew(3, 0, 0), start_mint |-> "",
     path |-> <<>>, cycles |-> <<>>]

Init ==
    /\ edges = HopGraphNew.edges
    /\ pool_index = HopGraphNew.pool_index
    /\ nodes = HopGraphNew.nodes
    /\ edge_count = HopGraphNew.edge_count
    /\ last = Called("new", NoEdge, 0, 0, NoRate, 0)
    /\ found = NoFound
    /\ held_scanner = <<>>
    /\ scan = <<>>
    /\ dedup = ConsensusEngineNew(MaxSignatures, MaxSlotLag).dedup
    /\ slot_tracker = ConsensusEngineNew(MaxSignatures, MaxSlotLag).slot_tracker
    /\ accepted_count = ConsensusEngineNew(MaxSignatures, MaxSlotLag).accepted_count
    /\ duplicate_count = ConsensusEngineNew(MaxSignatures, MaxSlotLag).duplicate_count
    /\ stale_count = ConsensusEngineNew(MaxSignatures, MaxSlotLag).stale_count
    /\ calls = [p \in Providers |-> NoCall]
    /\ resetting = 0
    /\ arrivals = [s \in Signatures |-> <<>>]
    /\ begun = 0
    /\ issued = {}
    /\ observed = 0
    /\ returned = [p \in Providers |-> NoReturn]
    /\ tracked = Tracked("new", 0, 0, 0, FALSE)
    /\ whiff = WhiffBufferNew(WhiffCapacity)
    /\ collapsed = NoCollapse
    /\ pushed = <<>>
    /\ history = <<>>
    /\ pathfinder = PathGraphNew
    /\ arbitrage = NoLoop
    /\ raw_channel = <<>>
    /\ event_channel = <<>>
    /\ running = FALSE
    /\ runtime = "none"
    /\ aggregator = NotSpawned
    /\ msg = [received |-> 0, accepted |-> 0, dropped |-> 0]

Next ==
    \/ CallUpdateEdge /\ UNCHANGED <<qvars, cvars, svars, wvars, hvars, pvars, avars>>
    \/ CallPruneStale /\ UNCHANGED <<qvars, cvars, svars, wvars, hvars, pvars, avars>>
    \/ CallClear /\ UNCHANGED <<qvars, cvars, svars, wvars, hvars, pvars, avars>>

Spec == Init /\ [][Next]_vars

----------------------------------------------------------------------------
(* The callers of the detectors: a graph is built with update_edge, then   *)
(* queried; a query's result is kept until the caller drops it, and the    *)
(* graph is not changed while a result or a scanner is held.               *)

\* the directions in which each pool address is quoted
PoolDirs ==
    [p1 |-> {<<"SOL", "USDC">>, <<"SOL", "SOL">>},
     p2 |-> {<<"USDC", "SOL">>, <<"USDC", "BONK">>},
     p3 |-> {<<"SOL", "BONK">>, <<"SOL", "USDC">>},
     p4 |-> {<<"BONK", "SOL">>, <<"USDC", "SOL">>}]

CycPools == DOMAIN PoolDirs

\* p1 and p2 are quoted at both rates, with and without a rate set after
\* construction, and once with liquidity below the floor; p3 and p4 are
\* quoted at 1.02 only
CycEdgeInputs ==
    UNION {EdgeInputs(PoolDirs[p], {p}, {90, 102}, {90}, {<<25, 5000>>}, {1}, Dexes)
           \cup EdgeInputs(PoolDirs[p], {p}, {102}, {}, {<<25, 500>>}, {1}, Dexes)
           : p \in {"p1", "p2"}}
    \cup UNION {EdgeInputs(PoolDirs[p], {p}, {102}, {}, {<<25, 5000>>}, {1}, Dexes)
                : p \in {"p3", "p4"}}

Starts == {"SOL", "WIF"}
MaxHopsArgs == {2, 4}
ThresholdArgs == {100}              \* min_profit_threshold 0.001
MinLiquidity == 1000
PathArgs ==
    {<<"SOL", "USDC", "BONK", "SOL">>, <<"SOL", "USDC", "SOL">>,
     <<"SOL", "SOL", "SOL", "SOL">>, <<"SOL", "BONK", "SOL", "USDC", "SOL">>,
     <<"SOL", "USDC">>, <<"SOL", "USDC", "BONK">>}
ScannerArgs == {<<2, 4>>}           \* (min_hops, max_hops)
MaxCyclesPerLevel == 50
HopCountArgs == 1..4
PctArgs == {1000}                   \* set_threshold(k, 0.1)

Idle == found = NoFound /\ scan = <<>>

CycUpdateEdge ==
    /\ Idle /\ held_scanner = <<>>
    /\ \E edge \in CycEdgeInputs : SetGraph(UpdateEdge(G, edge))
    /\ UNCHANGED <<last, found, held_scanner, scan>>

CallFindCycles ==
    /\ Idle /\ held_scanner = <<>>
    /\ \E max_hops \in MaxHopsArgs, thr \in ThresholdArgs, start_mint \in Starts :
        LET finder == CycleFinderNew(max_hops, thr, MinLiquidity)
        IN  found' = [op |-> "find_cycles", finder |-> finder,
                      start_mint |-> start_mint, path |-> <<>>,
                      cycles |-> FindCycles(finder, G, start_mint)]
    /\ UNCHANGED <<gvars, last, held_scanner, scan>>

CallValidatePath ==
    /\ Idle /\ held_scanner = <<>>
    /\ \E thr \in ThresholdArgs, path \in PathArgs :
        LET finder == CycleFinderNew(4, thr, MinLiquidity)
        IN  found' = [op |-> "validate_path", finder |-> finder,
                      start_mint |-> "", path |-> path,
                      cycles |-> ValidatePath(finder, G, path)]
    /\ UNCHANGED <<gvars, last, held_scanner, scan>>

CallScannerNew ==
    /\ Idle /\ held_scanner = <<>>
    /\ \E a \in ScannerArgs :
        held_scanner' = <<MultiverseScannerNew(a[1], a[2], MinLiquidity, MaxCyclesPerLevel)>>
    /\ UNCHANGED <<gvars, last, found, scan>>

CallSetThreshold ==
    /\ Idle /\ held_scanner # <<>>
    /\ \E hop_count \in HopCountArgs, pct \in PctArgs :
        held_scanner' = <<SetThreshold(held_scanner[1], hop_count, pct)>>
    /\ UNCHANGED <<gvars, last, found, scan>>

CallScanMultiverse ==
    /\ Idle /\ held_scanner # <<>>
    /\ \E start_mint \in Starts :
        LET done == ScanStart(held_scanner[1], G, start_mint)
        IN  \E order \in Orders(DOMAIN done.all) :
                scan' = <<[start_mint |-> start_mint,
                           result |-> ScanResult(done, order)]>>
    /\ UNCHANGED <<gvars, last, found, held_scanner>>

\* the caller drops the result and the scanner it holds
Drop ==
    /\ ~Idle \/ held_scanner # <<>>
    /\ found' = NoFound
    /\ held_scanner' = <<>>
    /\ scan' = <<>>
    /\ UNCHANGED <<gvars, last>>

NextCycle ==
    \/ CycUpdateEdge /\ UNCHANGED <<cvars, svars, wvars, hvars, pvars, avars>>
    \/ CallFindCycles /\ UNCHANGED <<cvars, svars, wvars, hvars, pvars, avars>>
    \/ CallValidatePath /\ UNCHANGED <<cvars, svars, wvars, hvars, pvars, avars>>
    \/ CallScannerNew /\ UNCHANGED <<cvars, svars, wvars, hvars, pvars, avars>>
    \/ CallSetThreshold /\ UNCHANGED <<cvars, svars, wvars, hvars, pvars, avars>>
    \/ CallScanMultiverse /\ UNCHANGED <<cvars, svars, wvars, hvars, pvars, avars>>
    \/ Drop /\ UNCHANGED <<cvars, svars, wvars, hvars, pvars, avars>>

SpecCycle == Init /\ [][NextCycle]_vars

----------------------------------------------------------------------------
(* The callers of the scanner on a four-token market: SOL trades into USDC *)
(* and BONK, both trade into WIF, and WIF and USDC trade back.             *)

MarketDirs ==
    [m1 |-> <<"SOL", "USDC">>, m2 |-> <<"SOL", "BONK">>, m3 |-> <<"USDC", "WIF">>,
     m4 |-> <<"BONK", "WIF">>, m5 |-> <<"WIF", "USDC">>, m6 |-> <<"USDC", "SOL">>,
     m7 |-> <<"WIF", "SOL">>]

\* m1 is quoted at 0.90 and 1.25, m7 at 1.25, the other pools at 1.02
MarketRates ==
    [m1 |-> {90, 125}, m2 |-> {102}, m3 |-> {102}, m4 |-> {102}, m5 |-> {102},
     m6 |-> {102}, m7 |-> {125}]

MarketEdgeInputs ==
    UNION {EdgeInputs({MarketDirs[p]}, {p}, MarketRates[p], {}, {<<25, 5000>>}, {1}, Dexes)
           : p \in DOMAIN MarketDirs}

MarketUpdateEdge ==
    /\ Idle /\ held_scanner = <<>>
    /\ \E edge \in MarketEdgeInputs : SetGraph(UpdateEdge(G, edge))
    /\ UNCHANGED <<last, found, held_scanner, scan>>

NextMarket ==
    \/ MarketUpdateEdge /\ UNCHANGED <<cvars, svars, wvars, hvars, pvars, avars>>
    \/ CallScannerNew /\ UNCHANGED <<cvars, svars, wvars, hvars, pvars, avars>>
    \/ CallSetThreshold /\ UNCHANGED <<cvars, svars, wvars, hvars, pvars, avars>>
    \/ CallScanMultiverse /\ UNCHANGED <<cvars, svars, wvars, hvars, pvars, avars>>
    \/ Drop /\ UNCHANGED <<cvars, svars, wvars, hvars, pvars, avars>>

SpecMarket == Init /\ [][NextMarket]_vars

----------------------------------------------------------------------------
(* The callers of the engine: one thread per provider calls should_process, *)
(* whose three steps each take and release their own locks, so the steps of *)
(* different threads interleave; clear_dedup is called from outside at any  *)
(* time.                                                                    *)

\* the signatures a call can carry: one carried before, or the next of
\* SignatureOrder (signatures are named in the order of their first use)
Issuable ==
    issued \cup {SignatureOrder[i] : i \in {Cardinality(issued) + 1} \cap DOMAIN SignatureOrder}

\* should_process, step 1: update_slot under the tracker's two locks
CheckSlot(p) ==
    /\ calls[p].at = "idle"
    /\ begun < MaxCalls
    /\ \E signature \in Issuable, slot \in SlotArgs :
        LET r == UpdateSlot(slot_tracker, p, slot)
        IN  /\ slot_tracker' = r.tracker
            /\ calls' = [calls EXCEPT ![p] =
                    [at |-> IF r.ret < 0 THEN "stale" ELSE "fresh",
                     signature |-> signature, slot |-> slot,
                     late |-> slot + slot_tracker.max_slot_lag < observed]]
            /\ issued' = issued \cup {signature}
            /\ observed' = Max(observed, slot)
    /\ begun' = begun + 1
    /\ UNCHANGED <<dedup, accepted_count, duplicate_count, stale_count,
                   resetting, arrivals, returned>>

\* a stale branch that also stores the signature
CountStale_Store(p) ==
    /\ calls[p].at = "stale"
    /\ stale_count' = stale_count + 1
    /\ dedup' = [dedup EXCEPT !.seen = @ \cup {calls[p].signature}]
    /\ calls' = [calls EXCEPT ![p] = NoCall]
    /\ returned' = [returned EXCEPT ![p] = Return(calls[p].late, FALSE)]
    /\ UNCHANGED <<slot_tracker, accepted_count, duplicate_count,
                   resetting, arrivals, begun, issued, observed>>

\* the stale branch: the stale counter under its lock, then return false
CountStale(p) ==
    /\ calls[p].at = "stale"
    /\ stale_count' = stale_count + 1
    /\ calls' = [calls EXCEPT ![p] = NoCall]
    /\ returned' = [returned EXCEPT ![p] = Return(calls[p].late, FALSE)]
    /\ UNCHANGED <<dedup, slot_tracker, accepted_count, duplicate_count,
                   resetting, arrivals, begun, issued, observed>>

\* should_process, step 2: is_new under the dedup's lock
CheckDuplicate(p) ==
    /\ calls[p].at = "fresh"
    /\ \E to_remove \in ToRemove(dedup) :
        LET r == IsNew(dedup, calls[p].signature, to_remove)
        IN  /\ dedup' = r.dedup
            /\ calls' = [calls EXCEPT ![p].at = IF r.ret THEN "accepted" ELSE "duplicate"]
            /\ arrivals' = [s \in Signatures |->
                    LET since == IF s \in to_remove THEN <<>> ELSE arrivals[s]
                    IN  IF s = calls[p].signature
                        THEN Append(since, [provider |-> p, ret |-> r.ret])
                        ELSE since]
    /\ UNCHANGED <<slot_tracker, accepted_count, duplicate_count, stale_count,
                   resetting, begun, issued, observed, returned>>

\* the duplicate branch: the duplicate counter under its lock, then return false
CountDuplicate(p) ==
    /\ calls[p].at = "duplicate"
    /\ duplicate_count' = duplicate_count + 1
    /\ calls' = [calls EXCEPT ![p] = NoCall]
    /\ returned' = [returned EXCEPT ![p] = Return(calls[p].late, FALSE)]
    /\ UNCHANGED <<dedup, slot_tracker, accepted_count, stale_count,
                   resetting, arrivals, begun, issued, observed>>

\* should_process, step 3: the accepted counter under its lock, then return true
CountAccepted(p) ==
    /\ calls[p].at = "accepted"
    /\ accepted_count' = accepted_count + 1
    /\ calls' = [calls EXCEPT ![p] = NoCall]
    /\ returned' = [returned EXCEPT ![p] = Return(calls[p].late, TRUE)]
    /\ UNCHANGED <<dedup, slot_tracker, duplicate_count, stale_count,
                   resetting, arrivals, begun, issued, observed>>

ClearDedup ==
    /\ dedup.seen # {}
    /\ dedup' = DedupClear(dedup)
    /\ arrivals' = [s \in Signatures |-> <<>>]
    /\ UNCHANGED <<slot_tracker, accepted_count, duplicate_count, stale_count,
                   calls, resetting, begun, issued, observed, returned>>

\* reset_stats zeroes the three counters one lock after the other; it is
\* called once
ResetStats ==
    /\ \/ /\ resetting = 0
          /\ accepted_count' = 0
          /\ resetting' = 1
          /\ UNCHANGED <<duplicate_count, stale_count>>
       \/ /\ resetting = 1
          /\ duplicate_count' = 0
          /\ resetting' = 2
          /\ UNCHANGED <<accepted_count, stale_count>>
       \/ /\ resetting = 2
          /\ stale_count' = 0
          /\ resetting' = 3
          /\ UNCHANGED <<accepted_count, duplicate_count>>
    /\ UNCHANGED <<dedup, slot_tracker, calls, arrivals, begun, issued, observed, returned>>

NextCons ==
    \/ \E p \in Providers : CheckSlot(p) /\ UNCHANGED <<gvars, last, qvars, svars, wvars, hvars, pvars, avars>>
    \/ \E p \in Providers : CountStale(p) /\ UNCHANGED <<gvars, last, qvars, svars, wvars, hvars, pvars, avars>>
    \/ \E p \in Providers : CheckDuplicate(p) /\ UNCHANGED <<gvars, last, qvars, svars, wvars, hvars, pvars, avars>>
    \/ \E p \in Providers : CountDuplicate(p) /\ UNCHANGED <<gvars, last, qvars, svars, wvars, hvars, pvars, avars>>
    \/ \E p \in Providers : CountAccepted(p) /\ UNCHANGED <<gvars, last, qvars, svars, wvars, hvars, pvars, avars>>
    \/ ClearDedup /\ UNCHANGED <<gvars, last, qvars, svars, wvars, hvars, pvars, avars>>

SpecCons == Init /\ [][NextCons]_vars

\* the engine with its statistics reset while calls are in progress;
\* reset_stats writes the three counters only
NextStats ==
    \/ NextCons
    \/ ResetStats /\ UNCHANGED <<gvars, last, qvars, svars, wvars, hvars, pvars, avars>>

SpecStats == Init /\ [][NextStats]_vars

\* the engine called a few times from the provider threads, each call
\* noted in history when it returns
MaxHistory == 3

Noted(p, ret) ==
    history' = Append(history, [provider |-> p, signature |-> calls[p].signature,
                                slot |-> calls[p].slot, at |-> calls[p].at,
                                ret |-> ret])

NextFew ==
    \/ \E p \in Providers : begun < MaxHistory /\ CheckSlot(p) /\ UNCHANGED <<gvars, last, qvars, svars, wvars, hvars, pvars, avars>>
    \/ \E p \in Providers : CountStale(p) /\ Noted(p, FALSE) /\ UNCHANGED <<gvars, last, qvars, svars, wvars, pvars, avars>>
    \/ \E p \in Providers : CheckDuplicate(p) /\ UNCHANGED <<gvars, last, qvars, svars, wvars, hvars, pvars, avars>>
    \/ \E p \in Providers : CountDuplicate(p) /\ Noted(p, FALSE) /\ UNCHANGED <<gvars, last, qvars, svars, wvars, pvars, avars>>
    \/ \E p \in Providers : CountAccepted(p) /\ Noted(p, TRUE) /\ UNCHANGED <<gvars, last, qvars, svars, wvars, pvars, avars>>

SpecFew == Init /\ [][NextFew]_vars

\* a step of reset_stats noted in history
NotedReset ==
    history' = Append(history, [provider |-> "", signature |-> "", slot |-> 0,
                                at |-> "reset_stats", ret |-> FALSE])

\* the same few calls with one reset_stats made from another thread
NextTally ==
    \/ NextFew
    \/ ResetStats /\ NotedReset /\ UNCHANGED <<gvars, last, qvars, svars, wvars, pvars, avars>>

SpecTally == Init /\ [][NextTally]_vars

----------------------------------------------------------------------------
(* The callers of a SlotTracker used on its own: update_slot from any      *)
(* provider, and reset, whose two statements take their locks one after    *)
(* the other.                                                              *)

CallUpdateSlot ==
    /\ \E provider \in Providers, slot \in 0..MaxTrackedSlot :
        LET r == UpdateSlot(slot_tracker, provider, slot)
        IN  /\ slot_tracker' = r.tracker
            /\ tracked' = Tracked("update_slot", slot, r.ret, observed, tracked.resetting)
            /\ observed' = Max(observed, slot)
    /\ UNCHANGED <<dedup, accepted_count, duplicate_count, stale_count, calls,
                   resetting, arrivals, begun, issued, returned>>

CallTrackerReset ==
    /\ \/ /\ ~tracked.resetting
          /\ slot_tracker' = ResetLatest(slot_tracker)
          /\ observed' = 0
          /\ tracked' = Tracked("reset", 0, 0, 0, TRUE)
       \/ /\ tracked.resetting
          /\ slot_tracker' = ResetProviders(slot_tracker)
          /\ tracked' = Tracked("reset", 0, 0, 0, FALSE)
          /\ UNCHANGED observed
    /\ UNCHANGED <<dedup, accepted_count, duplicate_count, stale_count, calls,
                   resetting, arrivals, begun, issued, returned>>

NextTracker ==
    \/ CallUpdateSlot /\ UNCHANGED <<gvars, last, qvars, wvars, hvars, pvars, avars>>
    \/ CallTrackerReset /\ UNCHANGED <<gvars, last, qvars, wvars, hvars, pvars, avars>>

SpecTracker == Init /\ [][NextTracker]_vars

----------------------------------------------------------------------------
(* The callers of a SignatureDedup used on its own: construction with a    *)
(* capacity, is_new, clear.                                                 *)

MaxSizeArgs == {1, 2, 3, 4}
DedupSignatures == {"s1", "s2", "s3", "s4", "s5", "s6"}

CallDedupNew ==
    /\ \E max_size \in MaxSizeArgs : dedup' = SignatureDedupNew(max_size)
    /\ UNCHANGED <<slot_tracker, accepted_count, duplicate_count, stale_count,
                   calls, resetting, arrivals, begun, issued, observed, returned>>

CallIsNew ==
    /\ \E signature \in DedupSignatures, to_remove \in ToRemove(dedup) :
        dedup' = IsNew(dedup, signature, to_remove).dedup
    /\ UNCHANGED <<slot_tracker, accepted_count, duplicate_count, stale_count,
                   calls, resetting, arrivals, begun, issued, observed, returned>>

CallDedupClear ==
    /\ dedup' = DedupClear(dedup)
    /\ UNCHANGED <<slot_tracker, accepted_count, duplicate_count, stale_count,
                   calls, resetting, arrivals, begun, issued, observed, returned>>

NextDedup ==
    \/ CallDedupNew /\ UNCHANGED <<gvars, last, qvars, svars, wvars, hvars, pvars, avars>>
    \/ CallIsNew /\ UNCHANGED <<gvars, last, qvars, svars, wvars, hvars, pvars, avars>>
    \/ CallDedupClear /\ UNCHANGED <<gvars, last, qvars, svars, wvars, hvars, pvars, avars>>

SpecDedup == Init /\ [][NextDedup]_vars

----------------------------------------------------------------------------
(* The callers of the WhiffBuffer.                                         *)

CallWhiffPush ==
    \E event \in WhiffEvents, timestamp_ms \in TimeArgs :
        /\ IF event.mint \in DOMAIN whiff.pressure_map
           THEN whiff.pressure_map[event.mint].event_count < MaxEvents
           ELSE TRUE
        /\ whiff' = WhiffPush(whiff, event, timestamp_ms)
        /\ collapsed' = NoCollapse
        /\ pushed' = [m \in DOMAIN pushed \cup {event.mint} |->
                            IF m = event.mint THEN timestamp_ms ELSE pushed[m]]

CallWhiffCollapse ==
    \E window_ms \in WindowArgs, current_time_ms \in TimeArgs :
        LET latest_per_mint == LatestPerMint(whiff, window_ms, current_time_ms)
        IN  \E order \in Orders(DOMAIN latest_per_mint) :
                /\ collapsed' = [made |-> TRUE, window_ms |-> window_ms,
                                 current_time_ms |-> current_time_ms,
                                 result |-> WhiffCollapse(latest_per_mint, order)]
                /\ UNCHANGED <<whiff, pushed>>

CallWhiffClear ==
    /\ whiff' = WhiffClear(whiff)
    /\ collapsed' = NoCollapse
    /\ pushed' = <<>>

CallWhiffPrune ==
    \E args \in PruneArgs :
        /\ whiff' = WhiffPrune(whiff, args[1], args[2])
        /\ collapsed' = NoCollapse
        /\ UNCHANGED pushed

NextWhiff ==
    \/ CallWhiffPush /\ UNCHANGED <<gvars, last, qvars, cvars, svars, hvars, pvars, avars>>
    \/ CallWhiffCollapse /\ UNCHANGED <<gvars, last, qvars, cvars, svars, hvars, pvars, avars>>
    \/ CallWhiffClear /\ UNCHANGED <<gvars, last, qvars, cvars, svars, hvars, pvars, avars>>
    \/ CallWhiffPrune /\ UNCHANGED <<gvars, last, qvars, cvars, svars, hvars, pvars, avars>>

SpecWhiff == Init /\ [][NextWhiff]_vars

----------------------------------------------------------------------------
(* The callers of the pathfinder: three tokens, one pool id per direction, *)
(* two for SOL -> USDC; prices 0.80 and 1.25                               *)

PathMints == {"SOL", "USDC", "BONK"}
PathStarts == PathMints \cup {"WIF"}
PathPrices == {80, 125}
PathPools ==
    (<<"SOL", "USDC">> :> {"su", "su2"}) @@ (<<"USDC", "SOL">> :> {"us"}) @@
    (<<"SOL", "BONK">> :> {"sb"}) @@ (<<"BONK", "SOL">> :> {"bs"}) @@
    (<<"USDC", "BONK">> :> {"ub"}) @@ (<<"BONK", "USDC">> :> {"bu"})

CallPathUpdateEdge ==
    /\ \E dir \in DOMAIN PathPools, price \in PathPrices :
        \E pool_id \in PathPools[dir] :
            pathfinder' = PathUpdateEdge(pathfinder, dir[1], dir[2], pool_id, price)
    /\ arbitrage' = NoLoop

CallFindArbitrageLoop ==
    /\ \E start_mint \in PathStarts :
        arbitrage' = [made |-> TRUE, start_mint |-> start_mint,
                      ret |-> FindArbitrageLoop(pathfinder, start_mint)]
    /\ UNCHANGED pathfinder

NextPath ==
    \/ CallPathUpdateEdge /\ UNCHANGED <<gvars, last, qvars, cvars, svars, wvars, hvars, avars>>
    \/ CallFindArbitrageLoop /\ UNCHANGED <<gvars, last, qvars, cvars, svars, wvars, hvars, avars>>

SpecPath == Init /\ [][NextPath]_vars

----------------------------------------------------------------------------
(* The WSS aggregator: WssAggregator::new(ChannelSize), then start, the    *)
(* provider tasks, the run_aggregator task, the consumer's poll_event and  *)
(* stop.  A crossbeam bounded channel: try_send fails when the channel is  *)
(* full, send waits until it is not.                                       *)

ChannelSize == 1
MaxMessages == 3
MAX_HISTORY == 2000
WssProviders == {"provider_0", "provider_1"}
WssSignatures == {"s1", "s2", "s3"}

\* bounded(channel_size) and bounded(channel_size * 2)
EventCapacity == ChannelSize
RawCapacity == ChannelSize * 2

\* tx.try_send(event): the event is dropped when the channel is full
TrySend(channel, capacity, event) ==
    IF Len(channel) < capacity THEN Append(channel, event) ELSE channel

\* start: the flag is set and the tasks are spawned on a new runtime; the
\* receiver of the raw channel and the sender of the event channel are
\* taken, so start succeeds once
WssStart ==
    /\ ~running
    /\ runtime = "none"
    /\ running' = TRUE
    /\ runtime' = "up"
    /\ aggregator' = [aggregator EXCEPT !.at = "head"]
    /\ UNCHANGED <<raw_channel, event_channel, msg>>

\* stop: the flag is cleared and the runtime is shut down in the background
WssStop ==
    /\ running
    /\ running' = FALSE
    /\ runtime' = IF runtime = "up" THEN "down" ELSE runtime
    /\ UNCHANGED <<raw_channel, event_channel, aggregator, msg>>

\* connect_and_subscribe: a log notification read by a provider task is
\* counted and handed to try_send
ProviderTask ==
    /\ running /\ runtime = "up"
    /\ msg.received < MaxMessages
    /\ \E provider \in WssProviders, signature \in WssSignatures :
        raw_channel' = TrySend(raw_channel, RawCapacity,
                               [provider |-> provider, signature |-> signature])
    /\ msg' = [msg EXCEPT !.received = @ + 1]
    /\ UNCHANGED <<event_channel, running, runtime, aggregator>>

\* run_aggregator, the head of the while loop
AggregatorHead ==
    /\ aggregator.at = "head"
    /\ aggregator' = [aggregator EXCEPT !.at = IF running THEN "drain" ELSE "done"]
    /\ UNCHANGED <<raw_channel, event_channel, running, runtime, msg>>

\* the cleanup of the history after a signature is marked seen
MarkSeen(a, signature) ==
    LET seen == a.seen_signatures \cup {signature}
        order == Append(a.signature_order, signature)
    IN  IF Cardinality(seen) > MAX_HISTORY
        THEN [a EXCEPT !.seen_signatures = seen \ {Head(order)},
                       !.signature_order = Tail(order)]
        ELSE [a EXCEPT !.seen_signatures = seen, !.signature_order = order]

\* run_aggregator, raw_rx.try_recv() of the inner loop: nothing there
\* leaves the loop for the tick, a duplicate is dropped, a new signature
\* is marked seen and its event is taken to event_tx.send
AggregatorRecv ==
    /\ aggregator.at = "drain"
    /\ IF raw_channel = <<>>
       THEN /\ aggregator' = [aggregator EXCEPT !.at = "tick"]
            /\ UNCHANGED <<raw_channel, msg>>
       ELSE /\ raw_channel' = Tail(raw_channel)
            /\ IF Head(raw_channel).signature \in aggregator.seen_signatures
               THEN /\ msg' = [msg EXCEPT !.dropped = @ + 1]
                    /\ UNCHANGED aggregator
               ELSE /\ aggregator' = [MarkSeen(aggregator, Head(raw_channel).signature)
                                        EXCEPT !.at = "send",
                                               !.event = <<Head(raw_channel)>>]
                    /\ UNCHANGED msg
    /\ UNCHANGED <<event_channel, running, runtime>>

\* run_aggregator, event_tx.send(event): returns once the event channel
\* has room; the receiver is held by the WssAggregator, so the channel is
\* never disconnected
AggregatorSend ==
    /\ aggregator.at = "send"
    /\ Len(event_channel) < EventCapacity
    /\ event_channel' = Append(event_channel, aggregator.event[1])
    /\ msg' = [msg EXCEPT !.accepted = @ + 1]
    /\ aggregator' = [aggregator EXCEPT !.at = "drain", !.event = <<>>]
    /\ UNCHANGED <<raw_channel, running, runtime>>

\* run_aggregator, check_interval.tick().await: the task goes on at the
\* head of the loop, or is dropped there by a runtime that was shut down
AggregatorTick ==
    /\ aggregator.at = "tick"
    /\ aggregator' = [aggregator EXCEPT !.at = IF runtime = "down" THEN "dropped"
                                               ELSE "head"]
    /\ UNCHANGED <<raw_channel, event_channel, running, runtime, msg>>

\* a step of the run_aggregator task
RunAggregator ==
    /\ AggregatorHead \/ AggregatorRecv \/ AggregatorSend \/ AggregatorTick
    /\ UNCHANGED <<gvars, last, qvars, cvars, svars, wvars, hvars, pvars>>

\* poll_event: try_recv on the event channel
PollEvent ==
    /\ event_channel # <<>>
    /\ event_channel' = Tail(event_channel)
    /\ UNCHANGED <<raw_channel, running, runtime, aggregator, msg>>

NextWss ==
    \/ WssStart /\ UNCHANGED <<gvars, last, qvars, cvars, svars, wvars, hvars, pvars>>
    \/ WssStop /\ UNCHANGED <<gvars, last, qvars, cvars, svars, wvars, hvars, pvars>>
    \/ ProviderTask /\ UNCHANGED <<gvars, last, qvars, cvars, svars, wvars, hvars, pvars>>
    \/ AggregatorHead /\ UNCHANGED <<gvars, last, qvars, cvars, svars, wvars, hvars, pvars>>
    \/ AggregatorRecv /\ UNCHANGED <<gvars, last, qvars, cvars, svars, wvars, hvars, pvars>>
    \/ AggregatorSend /\ UNCHANGED <<gvars, last, qvars, cvars, svars, wvars, hvars, pvars>>
    \/ AggregatorTick /\ UNCHANGED <<gvars, last, qvars, cvars, svars, wvars, hvars, pvars>>
    \/ PollEvent /\ UNCHANGED <<gvars, last, qvars, cvars, svars, wvars, hvars, pvars>>

\* the run_aggregator task is run whenever it can take a step; the
\* consumer may stop polling and stop may never be called
SpecWss == Init /\ [][NextWss]_vars /\ WF_vars(RunAggregator)

----------------------------------------------------------------------------
(* Properties of the graph *)

\* the places <<source, position>> of the stored edges
Places(g) == UNION {{<<s, i>> : i \in 1..Len(g.edges[s])} : s \in DOMAIN g.edges}

At(g, place) == g.edges[place[1]][place[2]]

\* C1: update_edge on a pool address that is already stored leaves
\* edge_count unchanged, and get_edge of that pool then returns the rate,
\* liquidity, fee and slot of the edge just written.
C1_UpsertLastWriteWins ==
    [][(last'.op = "update_edge" /\ last'.prev_rate # NoRate)
        => /\ edge_count' = edge_count
           /\ \E e \in GetEdge(GNext, last'.edge.pool_address) :
                /\ e.exchange_rate = last'.edge.exchange_rate
                /\ e.liquidity_usd = last'.edge.liquidity_usd
                /\ e.fee_bps = last'.edge.fee_bps
                /\ e.last_update_slot = last'.edge.last_update_slot]_vars

\* C1 witness: a second write of a pool with another rate has been made
C1_Witness ==
    /\ last.op = "update_edge"
    /\ last.prev_rate # NoRate
    /\ last.prev_rate # {last.edge.exchange_rate}
    /\ edge_count = 1

\* C2: prune_stale(min_slot) returns the number of stored edges with
\* last_update_slot < min_slot, edge_count drops by that number, get_edge
\* is None for every pruned pool, and every other edge is kept.
C2_PruneExact ==
    [][(last'.op = "prune_stale")
        => LET stale == {pl \in Places(G) :
                            At(G, pl).last_update_slot < last'.min_slot}
               fresh == Places(G) \ stale
           IN  /\ last'.ret = Cardinality(stale)
               /\ edge_count' = edge_count - Cardinality(stale)
               /\ \A pl \in stale : GetEdge(GNext, At(G, pl).pool_address) = {}
               /\ \A pl \in fresh :
                    \E i \in 1..Len(GetOutbound(GNext, pl[1])) :
                        GetOutbound(GNext, pl[1])[i] = At(G, pl)]_vars

\* C2 witness: a prune that removed an edge and kept another
C2_Witness ==
    /\ last.op = "prune_stale"
    /\ last.ret >= 1
    /\ edge_count >= 1

\* C3: every pool_index entry points at an existing slot that holds the
\* edge of that pool, every stored edge is indexed at its own place, and
\* edge_count is the number of stored edges.
C3_IndexConsistent ==
    /\ \A p \in DOMAIN pool_index :
        /\ Resolves(G, p)
        /\ edges[pool_index[p].source][pool_index[p].idx + 1].pool_address = p
    /\ \A pl \in Places(G) :
        /\ At(G, pl).pool_address \in DOMAIN pool_index
        /\ pool_index[At(G, pl).pool_address] = [source |-> pl[1], idx |-> pl[2] - 1]
        /\ GetEdge(G, At(G, pl).pool_address) = {At(G, pl)}
    /\ edge_count = Cardinality(Places(G))

\* C3 witness: a prune removed an edge and moved a surviving one
C3_Witness ==
    /\ last.op = "prune_stale"
    /\ last.ret >= 1
    /\ last.moved >= 1

\* C4: after update_edge(A->B, pool p, rate r1) followed by
\* update_edge(B->A, pool p, rate r2), the outbound edges of A hold an edge
\* of pool p with rate r1 and the outbound edges of B hold an edge of pool
\* p with rate r2.
C4_TwoDirections ==
    [][(/\ last.op = "update_edge"
        /\ last'.op = "update_edge"
        /\ last'.edge.pool_address = last.edge.pool_address
        /\ last'.edge.source_mint = last.edge.target_mint
        /\ last'.edge.target_mint = last.edge.source_mint
        /\ last.edge.source_mint # last.edge.target_mint)
        => /\ \E i \in 1..Len(GetOutbound(GNext, last.edge.source_mint)) :
                LET e == GetOutbound(GNext, last.edge.source_mint)[i]
                IN  /\ e.pool_address = last.edge.pool_address
                    /\ e.exchange_rate = last.edge.exchange_rate
           /\ \E i \in 1..Len(GetOutbound(GNext, last'.edge.source_mint)) :
                LET e == GetOutbound(GNext, last'.edge.source_mint)[i]
                IN  /\ e.pool_address = last'.edge.pool_address
                    /\ e.exchange_rate = last'.edge.exchange_rate]_vars

\* C5: every stored edge has weight -ln(exchange_rate) when its
\* exchange_rate is positive and +infinity otherwise.
C5_WeightRateConsistent ==
    \A pl \in Places(G) :
        /\ At(G, pl).exchange_rate > 0
            => At(G, pl).weight = -Ln(At(G, pl).exchange_rate)
        /\ ~(At(G, pl).exchange_rate > 0) => At(G, pl).weight = Inf

----------------------------------------------------------------------------
(* Properties of the detectors *)

\* the cycles a held find_cycles or validate_path result carries
FoundCycles(ops) ==
    IF found.op \in ops THEN {found.cycles[i] : i \in 1..Len(found.cycles)} ELSE {}

\* the cycles a held scan_multiverse result carries, with their level
ScanCycles ==
    IF scan = <<>> THEN {}
    ELSE UNION {{[level |-> k, cycle |-> scan[1].result.cycles_by_hops[k][i]] :
                    i \in 1..Len(scan[1].result.cycles_by_hops[k])} :
                k \in DOMAIN scan[1].result.cycles_by_hops}

NoRepeat(seq) == \A i, j \in 1..Len(seq) : i # j => seq[i] # seq[j]

\* the graph holds an edge from source to target whose pool is pool_address
HoldsEdge(g, source, target, pool_address) ==
    \E i \in 1..Len(GetOutbound(g, source)) :
        /\ GetOutbound(g, source)[i].target_mint = target
        /\ GetOutbound(g, source)[i].pool_address = pool_address

StructurallyValid(g, path, pool_addresses, hop_count) ==
    /\ Len(path) >= 1
    /\ path[1] = path[Len(path)]
    /\ Len(pool_addresses) = Len(path) - 1
    /\ hop_count = Len(path) - 1
    /\ \A i \in 1..(Len(path) - 1) :
        HoldsEdge(g, path[i], path[i + 1], pool_addresses[i])

\* C6: every cycle returned by find_cycles, validate_path or scan_multiverse
\* starts and ends at the same token, has as many pool addresses as hops
\* and hop_count hops, and each hop path[i] -> path[i+1] is an edge of the
\* graph whose pool address is pool_addresses[i].
C6_StructurallyValid ==
    /\ \A c \in FoundCycles({"find_cycles", "validate_path"}) :
        StructurallyValid(G, c.path, c.pool_addresses, c.hop_count)
    /\ \A lc \in ScanCycles :
        StructurallyValid(G, lc.cycle.path, lc.cycle.pool_addresses, lc.cycle.hop_count)

\* C6 witness: find_cycles has returned a three-hop cycle that leaves the
\* start token
C6_Witness ==
    /\ found.op = "find_cycles"
    /\ \E c \in FoundCycles({"find_cycles"}) :
        c.hop_count = 3 /\ c.path[2] # c.path[1]

\* the closed walks of the graph of at most MaxWalk edges, as sequences of places
MaxWalk == 4

Walks(g) ==
    UNION {{w \in [1..n -> Places(g)] :
                /\ \A i \in 1..(n - 1) : At(g, w[i]).target_mint = w[i + 1][1]
                /\ At(g, w[n]).target_mint = w[1][1]} :
           n \in 1..MaxWalk}

RECURSIVE RateProduct(_, _, _)
RateProduct(g, w, i) ==
    IF i > Len(w) THEN 1 ELSE At(g, w[i]).exchange_rate * RateProduct(g, w, i + 1)

RECURSIVE Pow100(_)
Pow100(n) == IF n = 0 THEN 1 ELSE 100 * Pow100(n - 1)

\* every cycle of the graph multiplies to a rate below 1
OnlyLosingCycles(g) ==
    \A w \in Walks(g) : RateProduct(g, w, 1) < Pow100(Len(w))

ThresholdOf(sc, k) ==
    IF k \in DOMAIN sc.min_profit_thresholds
    THEN sc.min_profit_thresholds[k] ELSE FallbackThreshold

\* the profit fields of the returned cycles respect the thresholds
ProfitAtLeastThreshold ==
    /\ \A c \in FoundCycles({"find_cycles", "validate_path"}) :
        c.theoretical_profit_pct >= Times100(found.finder.min_profit_threshold)
    /\ \A lc \in ScanCycles :
        lc.cycle.profit_pct >= Times100(ThresholdOf(held_scanner[1], lc.cycle.hop_count))

\* C7: no returned cycle has a profit percentage below the threshold of
\* its detector (of its hop count for scan_multiverse), and a graph whose
\* only cycles have a rate product below 1 yields an empty result.
C7_ProfitThreshold ==
    /\ ProfitAtLeastThreshold
    /\ (FoundCycles({"find_cycles", "validate_path"}) # {} \/ ScanCycles # {})
        => ~OnlyLosingCycles(G)

\* C8: in every cycle returned by find_cycles or scan_multiverse no pool
\* address occurs twice and no token occurs twice in the interior of the path.
C8_SimpleCycle ==
    /\ \A c \in FoundCycles({"find_cycles"}) :
        /\ NoRepeat(c.pool_addresses)
        /\ NoRepeat(SubSeq(c.path, 2, Len(c.path) - 1))
    /\ \A lc \in ScanCycles :
        /\ NoRepeat(lc.cycle.pool_addresses)
        /\ NoRepeat(SubSeq(lc.cycle.path, 2, Len(lc.cycle.path) - 1))

\* C9: every cycle returned by find_cycles has 3 <= hop_count <= max_hops
\* (max_hops clamped to 3..5) and holds the base token only as the first
\* and the last element of its path.
C9_BaseTerminal ==
    \A c \in FoundCycles({"find_cycles"}) :
        /\ found.finder.max_hops \in 3..5
        /\ 3 <= c.hop_count
        /\ c.hop_count <= found.finder.max_hops
        /\ \A i \in 2..(Len(c.path) - 1) : c.path[i] # found.start_mint

----------------------------------------------------------------------------
(* Properties of the engine *)

\* C10: of the should_process calls that carry one signature with fresh
\* slots, from whatever providers, with no eviction of the signature and no
\* clear_dedup between them, the first returns true and every later one
\* returns false.
C10_FirstArrivalWins ==
    \A s \in Signatures :
        \A i \in 1..Len(arrivals[s]) : arrivals[s][i].ret = (i = 1)

\* C10 witness: two providers have carried the same signature with fresh
\* slots, and the second was answered
C10_Witness ==
    \E s \in Signatures :
        /\ Len(arrivals[s]) >= 2
        /\ arrivals[s][1].provider # arrivals[s][2].provider

\* C11: a should_process call whose slot is below S - max_slot_lag, S a
\* slot carried by any earlier call (accepted or rejected, of any provider
\* and signature), returns false.
C11_StaleStaysStale ==
    \A p \in Providers :
        (returned[p].made /\ returned[p].late) => returned[p].ret = FALSE

\* C11 witness: a call that came late, after another provider's call had
\* carried a higher slot, has returned
C11_Witness ==
    \E p, q \in Providers :
        /\ p # q
        /\ returned[p].made /\ returned[p].late
        /\ returned[q].made /\ ~returned[q].late

\* C12: between resets latest_slot never decreases and is the highest slot
\* ever given to update_slot (0 at first); update_slot returns 1 exactly
\* when slot > watermark, and the watermark is then the slot; 0 exactly when
\* watermark - max_slot_lag <= slot <= watermark; -1 otherwise; and in the
\* last two cases the watermark is unchanged.
C12_Watermark ==
    /\ slot_tracker.latest_slot = observed
    /\ tracked.op = "update_slot" =>
        LET w == tracked.before
        IN  /\ slot_tracker.latest_slot >= w
            /\ (tracked.ret = 1) = (tracked.slot > w)
            /\ (tracked.ret = 0) =
                    (w - slot_tracker.max_slot_lag <= tracked.slot /\ tracked.slot <= w)
            /\ (tracked.ret = -1) = (tracked.slot < w - slot_tracker.max_slot_lag)
            /\ tracked.ret = 1 => slot_tracker.latest_slot = tracked.slot
            /\ tracked.ret \in {0, -1} => slot_tracker.latest_slot = w

\* C12 witness: update_slot has answered stale below a watermark that an
\* earlier call raised
C12_Witness ==
    /\ tracked.op = "update_slot"
    /\ tracked.ret = -1
    /\ slot_tracker.latest_slot = MaxTrackedSlot

\* C13: whatever capacity the dedup was constructed with and whatever
\* is_new calls were made, it never stores more than max_size signatures.
C13_Bounded == Cardinality(dedup.seen) <= dedup.max_size

\* C14: when several provider threads are in should_process at the same
\* time with one signature and fresh slots, with no eviction of the
\* signature between their is_new steps, then however the steps interleave
\* exactly one of the calls is answered true and all the others false.
C14_ExactlyOnce ==
    \A s \in Signatures :
        arrivals[s] # <<>> =>
            Cardinality({i \in 1..Len(arrivals[s]) : arrivals[s][i].ret}) = 1

\* C14 witness: two provider threads are inside should_process at once with
\* the same signature, both past is_new and neither returned yet
C14_Witness ==
    \E p, q \in Providers :
        /\ p # q
        /\ calls[p].at = "accepted"
        /\ calls[q].at = "duplicate"
        /\ calls[p].signature = calls[q].signature
        /\ Len(arrivals[calls[p].signature]) = 2

\* the buffered events of a mint whose timestamp lies in
\* [current_time_ms - window_ms, current_time_ms]
InWindow(mint) ==
    {i \in 1..Len(whiff.buffer) :
        /\ whiff.buffer[i].event.mint = mint
        /\ whiff.buffer[i].timestamp_ms >= collapsed.current_time_ms - collapsed.window_ms
        /\ whiff.buffer[i].timestamp_ms <= collapsed.current_time_ms}

\* C15: collapse(window, now) returns at most one event per mint; the
\* event returned for a mint is one of the mint's buffered events with a
\* timestamp in [now - window, now], and one with the greatest timestamp
\* among those; a mint with no event in the interval has none returned.
C15_CollapseLatestInWindow ==
    collapsed.made =>
        /\ \A i, j \in 1..Len(collapsed.result) :
                collapsed.result[i].mint = collapsed.result[j].mint => i = j
        /\ \A i \in 1..Len(collapsed.result) :
                \E k \in InWindow(collapsed.result[i].mint) :
                    /\ whiff.buffer[k].event = collapsed.result[i]
                    /\ \A l \in InWindow(collapsed.result[i].mint) :
                            whiff.buffer[l].timestamp_ms <= whiff.buffer[k].timestamp_ms
        /\ \A mint \in Mints :
                InWindow(mint) # {} =>
                    \E i \in 1..Len(collapsed.result) : collapsed.result[i].mint = mint

\* the bars 0.20, 0.15, 0.10 and 0.08 percent, as percentages
DefaultBars == (2 :> 2000) @@ (3 :> 1500) @@ (4 :> 1000) @@ (5 :> 800)

\* the scanner with set_threshold(k, DefaultBars[k]) called for k = 2..5
RECURSIVE WithBars(_, _)
WithBars(scanner, k) ==
    IF k > 5 THEN scanner ELSE WithBars(SetThreshold(scanner, k, DefaultBars[k]), k + 1)

\* C16: a scanner on which set_threshold was never called accepts the
\* cycles whose profit is at least 0.20, 0.15, 0.10, 0.08 percent at 2, 3,
\* 4, 5 hops: its scan returns the cycles that the same scanner returns
\* after set_threshold(2, 0.20), (3, 0.15), (4, 0.10), (5, 0.08).
C16_DefaultBars ==
    (scan # <<>> /\ held_scanner[1].min_profit_thresholds = DefaultThresholds) =>
        scan[1].result.cycles_by_hops =
            ScanStart(WithBars(held_scanner[1], 2), G, scan[1].start_mint).all

\* the sum of the weights that the rates of the walk's edges have
RECURSIVE WalkWeight(_, _, _)
WalkWeight(g, w, i) ==
    IF i > Len(w) THEN 0
    ELSE WAdd(WeightOf(At(g, w[i]).exchange_rate), WalkWeight(g, w, i + 1))

\* the simple k-hop cycles of the graph from start_mint whose edges all
\* have the scanner's minimum liquidity and whose profit is at least the
\* scanner's threshold for k hops
Qualifying(g, scanner, start_mint, k) ==
    {w \in Walks(g) :
        /\ Len(w) = k
        /\ w[1][1] = start_mint
        /\ \A i, j \in 1..k : w[i][1] = w[j][1] => i = j
        /\ \A i \in 1..k : At(g, w[i]).liquidity_usd >= scanner.min_liquidity_usd
        /\ Profitable(ProfitPct(WalkWeight(g, w, 1)), ThresholdOf(scanner, k))}

\* C17: for every hop depth k of the scanner's range at which the graph
\* has a simple k-hop cycle from the start token, with every edge at or
\* above the liquidity floor and a profit at or above the threshold of
\* depth k, the scan's cycles_by_hops[k] is non-empty and best_cycle is
\* present.
C17_EveryDepthFound ==
    scan # <<>> =>
        \A k \in held_scanner[1].min_hops..held_scanner[1].max_hops :
            Qualifying(G, held_scanner[1], scan[1].start_mint, k) # {} =>
                /\ k \in DOMAIN scan[1].result.cycles_by_hops
                /\ scan[1].result.best_cycle # <<>>

\* C18: best_cycle of a scan_multiverse result is absent exactly when
\* cycles_by_hops is empty; otherwise it is one of the cycles of
\* cycles_by_hops and no cycle of any depth has a greater profit.
C18_BestIsGlobalMax ==
    scan # <<>> =>
        LET result == scan[1].result
        IN  /\ (result.best_cycle = <<>>) = (DOMAIN result.cycles_by_hops = {})
            /\ result.best_cycle # <<>> =>
                /\ \E lc \in ScanCycles : lc.cycle = result.best_cycle[1]
                /\ \A lc \in ScanCycles :
                        lc.cycle.profit_pct <= result.best_cycle[1].profit_pct

\* C18 witness: a scan has returned cycles of two depths with different
\* profits, and a best cycle
C18_Witness ==
    /\ scan # <<>>
    /\ scan[1].result.best_cycle # <<>>
    /\ \E a, b \in ScanCycles :
            a.level # b.level /\ a.cycle.profit_pct # b.cycle.profit_pct

\* the hop path[i] -> path[i + 1] has an edge in the graph
HasHop(g, path, i) == FindTarget(GetOutbound(g, path[i]), path[i + 1]) # 0

\* the sum, from hop i on, of the weights that the current rates of the
\* path's edges have
RECURSIVE RecomputedWeight(_, _, _)
RecomputedWeight(g, path, i) ==
    IF i > Len(path) - 1 THEN 0
    ELSE LET out == GetOutbound(g, path[i])
             edge == out[FindTarget(out, path[i + 1])]
         IN  WAdd(WeightOf(edge.exchange_rate), RecomputedWeight(g, path, i + 1))

\* C19: validate_path returns None for a path of fewer than 3 elements or
\* with different first and last tokens, None if a hop of the path has no
\* edge in the graph as it is now, and None if the profit recomputed from
\* the current rates of the path's edges is below the threshold.
C19_ValidateGate ==
    found.op = "validate_path" =>
        LET path == found.path
            formed == Len(path) >= 3 /\ path[1] = path[Len(path)]
            hops == formed /\ \A i \in 1..(Len(path) - 1) : HasHop(G, path, i)
        IN  /\ ~formed => found.cycles = <<>>
            /\ ~hops => found.cycles = <<>>
            /\ (hops /\ ~Profitable(ProfitPct(RecomputedWeight(G, path, 1)),
                                    found.finder.min_profit_threshold))
                    => found.cycles = <<>>

\* the search of dfs_exact_hops with no memo: the profits of the cycles it
\* closes through the outbound edges of the frame's mint
RECURSIVE PlainProfits(_, _, _, _, _, _)
PlainProfits(scanner, graph, start_mint, fr, target_hops, min_profit) ==
    LET out == GetOutbound(graph, fr.current_mint)
        through(edge) ==
            LET new_weight == WAdd(fr.total_weight, edge.weight)
            IN  IF edge.liquidity_usd < scanner.min_liquidity_usd THEN {}
                ELSE IF Revisits(fr.path, edge, start_mint) THEN {}
                ELSE IF edge.target_mint = start_mint /\ fr.depth + 1 = target_hops
                THEN IF Profitable(ProfitPct(new_weight), min_profit)
                     THEN {ProfitPct(new_weight)} ELSE {}
                ELSE IF fr.depth < target_hops - 1
                        /\ ~TooHeavy(new_weight, target_hops - fr.depth - 1)
                THEN PlainProfits(scanner, graph, start_mint, Push(fr, edge),
                                  target_hops, min_profit)
                ELSE {}
    IN  UNION {through(out[i]) : i \in 1..Len(out)}

\* the profits of the target_hops cycles found from start_mint with no memo
PlainLevel(scanner, graph, start_mint, target_hops) ==
    LET out == GetOutbound(graph, start_mint)
    IN  UNION {IF out[i].liquidity_usd < scanner.min_liquidity_usd THEN {}
               ELSE PlainProfits(scanner, graph, start_mint,
                                 FirstFrame(start_mint, out[i]), target_hops,
                                 ThresholdOf(scanner, target_hops))
               : i \in 1..Len(out)}

\* the profits of the cycles the scan returned at a depth
ScanProfits(k) == {lc.cycle.profit_pct : lc \in {x \in ScanCycles : x.level = k}}

Greatest(S) == {x \in S : \A y \in S : y <= x}

\* C20: at every depth of the scan the most profitable cycle returned has
\* the profit of the most profitable cycle that the same search finds
\* without the memo, and a depth at which that search finds a cycle has one
\* returned.
C20_MemoLosesNothing ==
    scan # <<>> =>
        \A k \in held_scanner[1].min_hops..held_scanner[1].max_hops :
            Greatest(ScanProfits(k)) =
                Greatest(PlainLevel(held_scanner[1], G, scan[1].start_mint, k))

\* the engine value held in the state variables
Engine ==
    [dedup |-> dedup, slot_tracker |-> slot_tracker, accepted_count |-> accepted_count,
     duplicate_count |-> duplicate_count, stale_count |-> stale_count]

\* the counters, the watermark and the dedup set of an engine
Outcome(e) ==
    [accepted |-> e.accepted_count, duplicate |-> e.duplicate_count,
     stale |-> e.stale_count, latest_slot |-> e.slot_tracker.latest_slot,
     seen |-> e.dedup.seen]

\* the engines that result from making the calls of seq one after another
\* on engine e with each call returning the value noted for it
RECURSIVE Serial(_, _)
Serial(e, seq) ==
    IF seq = <<>> THEN {e}
    ELSE LET c == Head(seq)
         IN  UNION {LET r == ShouldProcess(e, c.provider, c.signature, c.slot, t)
                    IN  IF r.ret = c.ret THEN Serial(r.engine, Tail(seq)) ELSE {}
                    : t \in ToRemove(e.dedup)}

NoCallInProgress == \A p \in Providers : calls[p].at = "idle"

\* C21: whenever no should_process call is in progress, the values the
\* calls made so far have returned, the three counters, the watermark and
\* the dedup set are those of making the same calls one after another, in
\* some order, on a new engine.
C21_Serializable ==
    NoCallInProgress =>
        \E order \in Orders(1..Len(history)) :
            \E e \in Serial(ConsensusEngineNew(MaxSignatures, MaxSlotLag),
                             [i \in 1..Len(history) |-> history[order[i]]]) :
                Outcome(e) = Outcome(Engine)

\* the calls of history that returned from the given branches
Returned(branches) == {i \in 1..Len(history) : history[i].at \in branches}

\* C22: a call rejected as stale counts on the stale counter only and
\* stores nothing: the stale counter is the number of stale rejections,
\* every stored signature was carried by a call that passed the staleness
\* check, and a signature carried by stale rejections and by one call with
\* a fresh slot has that call answered true.
C22_StaleLeavesDedup ==
    /\ stale_count = Cardinality(Returned({"stale"}))
    /\ accepted_count + duplicate_count = Cardinality(Returned({"accepted", "duplicate"}))
    /\ \A s \in dedup.seen :
            \/ \E i \in Returned({"accepted", "duplicate"}) : history[i].signature = s
            \/ \E p \in Providers :
                    calls[p].at \in {"accepted", "duplicate"} /\ calls[p].signature = s
    /\ \A i \in Returned({"accepted", "duplicate"}) :
            (/\ \A j \in Returned({"accepted", "duplicate"}) :
                    history[j].signature = history[i].signature => j = i
             /\ \A p \in Providers : calls[p].signature # history[i].signature)
                => history[i].ret = TRUE

\* C22 witness: a call was rejected as stale and a call that returned
\* after it, with the same signature, was answered true
C22_Witness ==
    \E i, j \in 1..Len(history) :
        /\ i < j
        /\ history[i].at = "stale"
        /\ history[j].signature = history[i].signature
        /\ history[j].ret = TRUE

\* the step is a prune(max_age_ms, current_time_ms) of the buffer
IsPrune(max_age_ms, current_time_ms) ==
    /\ whiff' = WhiffPrune(whiff, max_age_ms, current_time_ms)
    /\ pushed' = pushed
    /\ collapsed' = NoCollapse

\* C23: prune multiplies by 0.9 the three accumulators of exactly the
\* mints whose latest push is more than the decay window before the
\* current time, and leaves the pressure of every other mint as it was.
C23_DecayStaleMints ==
    [][\A args \in PruneArgs :
            IsPrune(args[1], args[2]) =>
                \A m \in DOMAIN whiff.pressure_map :
                    whiff'.pressure_map[m] =
                        IF pushed[m] < SaturatingSub(args[2], DecayWindow)
                        THEN [whiff.pressure_map[m] EXCEPT !.bullish = Decay(@),
                                                           !.bearish = Decay(@),
                                                           !.volatile = Decay(@)]
                        ELSE whiff.pressure_map[m]]_vars

\* C24: after prune no event older than current_time_ms - max_age_ms is
\* left in the buffer, and every event of the buffer that is not older
\* is still there, in its order.
C24_PruneByAge ==
    [][\A args \in PruneArgs :
            IsPrune(args[1], args[2]) =>
                whiff'.buffer = SelectSeq(whiff.buffer,
                    LAMBDA e : e.timestamp_ms >= SaturatingSub(args[2], args[1]))]_vars

\* the step is the clear_dedup of the engine, the one operation it exposes
\* that resets any of the state should_process decides on
IsClearDedup ==
    /\ dedup.seen # {}
    /\ dedup' = DedupClear(dedup)
    /\ calls' = calls

\* C25: after the reset the engine exposes, its stored signatures, its
\* latest-slot watermark and its per-provider marks are those of a
\* freshly constructed engine.
C25_ResetIsFresh ==
    [][IsClearDedup =>
            /\ dedup' = ConsensusEngineNew(MaxSignatures, MaxSlotLag).dedup
            /\ slot_tracker' = ConsensusEngineNew(MaxSignatures, MaxSlotLag).slot_tracker]_vars

\* C26: on the graph it was found on, every cycle returned by find_cycles
\* is returned again by validate_path of its path, with the same pool
\* addresses, total weight and profit.
C26_RevalidateRoundTrip ==
    \A c \in FoundCycles({"find_cycles"}) :
        LET again == ValidatePath(found.finder, G, c.path)
        IN  /\ again # <<>>
            /\ again[1].pool_addresses = c.pool_addresses
            /\ again[1].total_weight = c.total_weight
            /\ again[1].theoretical_profit_pct = c.theoretical_profit_pct

\* the sum of the weights the graph stores for the walk's edges, added in
\* the order of the walk
RECURSIVE StoredWeight(_, _, _)
StoredWeight(g, w, n) ==
    IF n = 0 THEN 0 ELSE WAdd(StoredWeight(g, w, n - 1), At(g, w[n]).weight)

\* the simple cycles of the graph from start_mint of 3 to max_hops hops
\* whose edges all have the finder's minimum liquidity and whose profit is
\* at least the finder's threshold
SimpleQualifying(g, finder, start_mint) ==
    {w \in Walks(g) :
        /\ Len(w) \in 3..finder.max_hops
        /\ w[1][1] = start_mint
        /\ \A i, j \in 1..Len(w) : w[i][1] = w[j][1] => i = j
        /\ \A i \in 1..Len(w) : At(g, w[i]).liquidity_usd >= finder.min_liquidity_usd
        /\ Profitable(ProfitPct(StoredWeight(g, w, Len(w))), finder.min_profit_threshold)}

\* the positions of the result that hold the walk: its tokens and its pools
Entries(g, cycles, w) ==
    {i \in 1..Len(cycles) :
        /\ cycles[i].pool_addresses = [k \in 1..Len(w) |-> At(g, w[k]).pool_address]
        /\ cycles[i].path = [k \in 1..(Len(w) + 1) |->
                                IF k <= Len(w) THEN w[k][1] ELSE w[1][1]]}

\* C27: the result of find_cycles holds exactly once every simple cycle
\* through the start token of 3 to max_hops hops whose edges all have the
\* minimum liquidity and whose profit is at least the threshold, and it is
\* empty for a start token the graph does not hold.
C27_FindCyclesComplete ==
    found.op = "find_cycles" =>
        /\ \A w \in SimpleQualifying(G, found.finder, found.start_mint) :
                Cardinality(Entries(G, found.cycles, w)) = 1
        /\ ~HasNode(G, found.start_mint) => found.cycles = <<>>

\* C27 witness: find_cycles has run on a graph that holds two qualifying
\* simple cycles over the same tokens through parallel pools
C27_Witness ==
    /\ found.op = "find_cycles"
    /\ \E v, w \in SimpleQualifying(G, found.finder, found.start_mint) :
            /\ v # w
            /\ \A k \in 1..Len(w) : Len(v) = Len(w) /\ v[k][1] = w[k][1]

\* the should_process calls that returned after position cut of history
Since(cut) == {i \in (cut + 1)..Len(history) : history[i].at # "reset_stats"}

\* the positions at which the last reset_stats can be taken to have
\* happened: any between its first and its last write, 0 without a reset
ResetPoints ==
    LET steps == {i \in 1..Len(history) : history[i].at = "reset_stats"}
    IN  IF steps = {} THEN {0}
        ELSE {i \in 1..Len(history) :
                /\ \E k \in steps : k <= i
                /\ \E k \in steps : k >= i}

\* C28: whenever no should_process call and no reset_stats is in progress,
\* the three counters add up to the number of should_process calls that
\* returned since construction or the last reset_stats, and
\* accepted_count is the number of those that returned true.
C28_CounterAccounting ==
    (NoCallInProgress /\ resetting \in {0, 3}) =>
        \E cut \in ResetPoints :
            /\ accepted_count + duplicate_count + stale_count = Cardinality(Since(cut))
            /\ accepted_count = Cardinality({i \in Since(cut) : history[i].ret})

\* the edges of the pathfinder's Graph as <<source id, position>>
PathPlaces(g) ==
    UNION {{<<u, i>> : i \in 1..Len(g.adjacency[u])} : u \in 1..Len(g.adjacency)}

PathAt(g, place) == g.adjacency[place[1]][place[2]]

\* the closed walks of the Graph of at most as many edges as it has
\* tokens and one more, as sequences of places
PathCycles(g) ==
    UNION {{w \in [1..k -> PathPlaces(g)] :
                /\ \A i \in 1..(k - 1) : PathAt(g, w[i]).target_id = w[i + 1][1]
                /\ PathAt(g, w[k]).target_id = w[1][1]} :
           k \in 1..Len(g.id_to_mint)}

RECURSIVE PathWeight(_, _, _)
PathWeight(g, w, i) ==
    IF i > Len(w) THEN 0 ELSE PathAt(g, w[i]).weight + PathWeight(g, w, i + 1)

\* the ids that can be reached from the ids of from in at most k hops
RECURSIVE ReachIn(_, _, _)
ReachIn(g, from, k) ==
    IF k = 0 THEN from
    ELSE ReachIn(g, from \cup {PathAt(g, pl).target_id :
                                    pl \in {q \in PathPlaces(g) : q[1] \in from}}, k - 1)

\* a cycle of negative total weight can be reached from the start
NegativeCycleReachable(g, start_mint) ==
    /\ MintId(g, start_mint) # 0
    /\ \E w \in PathCycles(g) :
        /\ PathWeight(g, w, 1) < 0
        /\ w[1][1] \in ReachIn(g, {MintId(g, start_mint)}, Len(g.id_to_mint))

\* the pool ids are those of the edges of a closed walk of the Graph
ClosedCycle(g, pools) ==
    \E w \in PathCycles(g) :
        /\ Len(w) = Len(pools)
        /\ \A i \in 1..Len(w) : PathAt(g, w[i]).pool_id = pools[i]

\* C29: find_arbitrage_loop returns a non-empty list only if a cycle of
\* negative total weight can be reached from the start token, and the pool
\* ids it returns are those of a closed cycle of the graph, with no edge
\* leading into it or out of it.
C29_LoopIsNegativeCycle ==
    (arbitrage.made /\ arbitrage.ret # <<>>) =>
        /\ NegativeCycleReachable(pathfinder, arbitrage.start_mint)
        /\ ClosedCycle(pathfinder, arbitrage.ret)

\* C30: when the consumer stops polling no stage waits for ever: the
\* run_aggregator task always comes back to the head of its loop, so that
\* after stop() it ends, having read running as false or being dropped at
\* its tick by the runtime that was shut down.
C30_NeverBlocksForever ==
    (runtime = "down") ~> (aggregator.at \in {"done", "dropped"})

====
